---- MODULE Spec2Model ----
(***************************************************************************)
(* A probe session of internal/mcp/local.go: probeLocalServer drives a     *)
(* child process over stdio with framed JSON-RPC, next to the goroutine    *)
(* that waits for the process, the goroutine of each cancellable read, the *)
(* caller's context, and the child itself.                                 *)
(***************************************************************************)
EXTENDS Integers, Sequences, FiniteSets, TLC

\* Bounds of the model.
MaxFrames == 3      \* chunks the child writes to its stdout in one session
MaxInFlight == 1    \* chunks written and not yet read by the session
NumGoroutines == 3  \* goroutines that call the registry concurrently
MaxSegments == 3    \* pieces of output in the stream a frame reader is given

\* ------------------------------------------------------------ wire data

\* The raw JSON value of an envelope's id field.
NoId == [t |-> "none", n |-> 0, s |-> ""]
IntId(n) == [t |-> "int", n |-> n, s |-> ""]
StrId(s) == [t |-> "str", n |-> 0, s |-> s]
BoolId == [t |-> "bool", n |-> 0, s |-> ""]

\* The raw JSON value of an envelope's result field.
NoRes == [k |-> "none", tools |-> <<>>, next |-> ""]
BadRes == [k |-> "garbage", tools |-> <<>>, next |-> ""]
Page(ts, nx) == [k |-> "obj", tools |-> ts, next |-> nx]

\* The raw JSON value of an envelope's params field: len bytes of JSON text
\* and pad bytes of white space that carries no meaning.
Params(len, pad) == [len |-> len, pad |-> pad]
NoParams == Params(0, 0)

Envelope(id, method, result, error) ==
    [id |-> id, method |-> method, result |-> result, error |-> error,
     params |-> NoParams]

\* A message of the child with a method, params and no id.
Notify(method, params) == [Envelope(NoId, method, NoRes, "") EXCEPT !.params = params]
NoEnv == Envelope(NoId, "", NoRes, "")

\* What the child writes to its stdout in one write: a complete frame
\* (Content-Length header, blank line, body), or a line that is no frame.
Frame(env) == [w |-> "frame", env |-> env]
NoJSON == [w |-> "nojson", env |-> NoEnv]        \* framed body that is no JSON
BadLen == [w |-> "badlen", env |-> NoEnv]        \* Content-Length: abc
JunkLine == [w |-> "junk", env |-> NoEnv]        \* a line without a header
NoChunk == [w |-> "none", env |-> NoEnv]

\* The chunks the child chooses from: results for the ids the session uses
\* (as initialize result and as tools/list pages), JSON-RPC errors, results
\* that do not decode, an id sent as a string, a request of the child's own
\* (with a usable id and with an unusable one), a notification (params of
\* 401 bytes of JSON text and a byte of white space), an envelope
\* with neither id nor method, and three kinds of broken framing or body.
PageIds == {2, 3}
Pages == {Page(<<"a">>, "c1"), Page(<<"b">>, "")}
FailIds == {1, 2}

Menu ==
    {Frame(Envelope(IntId(1), "", Page(<<>>, ""), ""))}
    \cup {Frame(Envelope(IntId(i), "", p, "")) : i \in PageIds, p \in Pages}
    \cup {Frame(Envelope(IntId(i), "", NoRes, "boom")) : i \in FailIds}
    \cup {Frame(Envelope(IntId(i), "", BadRes, "")) : i \in FailIds}
    \cup {Frame(Envelope(StrId("2"), "", Page(<<"b">>, ""), "")),
          Frame(Envelope(IntId(2), "ping", NoRes, "")),
          Frame(Envelope(BoolId, "ping", NoRes, "")),
          Frame(Notify("log", Params(401, 1))),
          Frame(NoEnv),
          NoJSON, BadLen, JunkLine}

\* ------------------------------------------------------- pure functions

DecimalDigit == <<"1", "2", "3", "4", "5", "6", "7", "8", "9">>

\* strconv.Itoa, for the one-digit request ids the bounded session reaches.
Itoa(n) == IF n = 0 THEN "0" ELSE DecimalDigit[n]

\* An id decoder that knows integers only.
rawMessageIDIntOnly(raw) ==
    IF raw.t = "int" THEN [ok |-> TRUE, id |-> Itoa(raw.n)]
    ELSE [ok |-> FALSE, id |-> ""]

\* rawMessageID: an integer id is formatted in decimal, a string id is taken
\* as it is, any other JSON value is an error.
rawMessageID(raw) ==
    IF raw.t = "int" THEN [ok |-> TRUE, id |-> Itoa(raw.n)]
    ELSE IF raw.t = "str" THEN [ok |-> TRUE, id |-> raw.s]
    ELSE [ok |-> FALSE, id |-> ""]

\* A decoder that accepts every result.
DecodeAnything(res) == TRUE

\* json.Unmarshal of a result into the struct the call site declares: an
\* absent result (empty input) and a value that is no object are errors.
DecodeOK(res) == res.k = "obj"

\* An error as the caller sees it: what failed, and whether the stderr tail
\* was attached.
NoErr == [kind |-> "", stderr |-> FALSE]
annotateProbeError(kind, tail) == [kind |-> kind, stderr |-> tail]

NoResult == [ok |-> FALSE, tools |-> <<>>, notifications |-> <<>>]
ProbeResult(ts, ns) == [ok |-> TRUE, tools |-> ts, notifications |-> ns]

\* A failing return that hands back the result built so far.
FailurePartial(kind, tail, partial) ==
    [res |-> partial, err |-> annotateProbeError(kind, tail)]

\* The pair a failing return statement of probeLocalServer gives back.
Failure(kind, tail, partial) ==
    [res |-> NoResult, err |-> annotateProbeError(kind, tail)]

\* Messages the session writes to the child's stdin.
Request(n, method, cur) ==
    [id |-> IntId(n), method |-> method, cursor |-> cur, code |-> 0, about |-> ""]
InitializedNote ==
    [id |-> NoId, method |-> "notifications/initialized", cursor |-> "",
     code |-> 0, about |-> ""]
MethodNotFound == -32601
\* A reply that loses the id of the request (idValue left nil).
respondNullId(env) ==
    [id |-> NoId, method |-> "", cursor |-> "", code |-> MethodNotFound,
     about |-> env.method]

\* respondMethodNotImplemented: the id is decoded and encoded again.
respondMethodNotImplemented(env) ==
    [id |-> env.id, method |-> "", cursor |-> "", code |-> MethodNotFound,
     about |-> env.method]

\* A text, by its length in bytes: how many bytes of the compacted params
\* it starts with, and whether the marker "..." follows them.
Text(kept, marked) ==
    [len |-> kept + (IF marked THEN 3 ELSE 0), kept |-> kept, ellipsis |-> marked]

\* string(raw): the params as they came, white space included.
rawString(raw) == Text(raw.len + raw.pad, FALSE)

\* compactJSONRaw: json.Compact drops the white space between the tokens.
compactJSONRaw(raw) == Text(raw.len, FALSE)

\* The longest detail a notification keeps, and what is kept of a longer one.
DetailLimit == 400
DetailKept == 397

\* A detail that is kept whole, whatever its length.
NoCut(detail) == detail

\* if len(detail) > 400 { detail = detail[:397] + "..." }
Cut(detail) == IF detail.len > DetailLimit THEN Text(DetailKept, TRUE) ELSE detail

\* Notification{Method: env.Method, Detail: detail}
Notification(env) == [method |-> env.method, detail |-> Cut(compactJSONRaw(env.params))]

\* The ToolSummary built from one entry of a page's tools array.
ToolSummary(tool) == [name |-> tool]
Summaries(ts) == [i \in 1..Len(ts) |-> ToolSummary(ts[i])]

\* Grace periods of the shutdown, in milliseconds.
ShortGrace == 200
LongGrace == 750

\* ----------------------------------------------------------------- state

VARIABLES
    pc,            \* where probeLocalServer is
    phase,         \* which awaitResponse call is running: "init" or "tools"
    ret,           \* the pair the return statement gave: [res, err]
    ctxDone,       \* the caller's context is cancelled or past its deadline
    proc,          \* the child: unstarted, running, exited, killed
    exitErr,       \* what cmd.Wait reports for the ended child: "nil" or "err"
    waiter,        \* the goroutine of line 149: idle, waiting, finished
    done,          \* the channel done (capacity 1)
    stdinOpen,     \* the write side of the child's stdin is open
    pipe,          \* chunks in the stdout pipe
    buf,           \* chunks in the bufio.Reader
    stdoutClosed,  \* cmd.Wait closed the read end of the stdout pipe
    rd,            \* the goroutine of the current read: none, blocked, ready
    ch,            \* what that goroutine sent on its channel
    pending,       \* the map responses: id -> envelope
    notifications,
    requestID,
    expectID,      \* the id the running awaitResponse waits for
    cursor,
    tools,         \* result.Tools
    success,
    wait,          \* the grace period the shutdown chose
    got,           \* the envelope awaitResponse returned
    sent,          \* the messages written to the child's stdin, in order
    emitted,       \* history: chunks the child wrote
    skipped,       \* history: a read skipped a line that was no header
    pages,         \* history: the tools/list results decoded, in order
    fromPending,   \* history: the last awaitResponse answered from the map
    reads,         \* history: reads the running awaitResponse started
    file,          \* the store file servers.json
    clients,       \* DefaultRegistry.clients: alias -> Client
    opts,          \* opts.MCPServers: the aliases the configuration declares
    opc,           \* where the running call of the package's API is
    call,          \* that call and its arguments
    todo,          \* the entries a range loop of Warmup has still to visit
    store,         \* the serverStore a call loaded and is about to save
    out,           \* what the last call returned
    runCtx,        \* the context of RunLocalCommand is done
    child,         \* the child of RunLocalCommand
    added,         \* history: alias -> the definition last added and not removed
    readerCount,   \* RWMutex: readers that hold or have requested the shared lock
    writerPending, \* RWMutex: a writer has announced itself (readerCount < 0 in Go)
    readerWait,    \* RWMutex: departing readers the announced writer waits for
    readerSem,     \* RWMutex: wake-ups posted for blocked readers
    writerSem,     \* RWMutex: wake-ups posted for the blocked writer
    w,             \* RWMutex: the goroutine that holds the writers' mutex, 0 if none
    tpc,           \* where each goroutine calling the registry is
    active,        \* each goroutine's local r: the result of its readerCount.Add
    wrote,         \* history: the last mutation of the registry
    environ,       \* os.Environ() of the launcher: key -> value
    nodeDirs,      \* localNodeBinDirs(): the bundled runtime directories found
    defEnv,        \* def.Env of the definition being launched
    extraEnv,      \* the extra environment of the call
    cmdEnv,        \* cmd.Env as buildCommand set it: key -> value
    lpc,           \* where the launcher is
    stream,        \* the bytes the frame reader has not consumed yet
    length,        \* readFramedMessage: the local length
    fpc,           \* where readFramedMessage is
    frame,         \* what the last readFramedMessage returned
    consumed,      \* history: the bytes consumed by the running readFramedMessage
    stdoutBuf,     \* one-shot run: what the child wrote to its stdout
    stderrBuf,     \* one-shot run: what the child wrote to its stderr
    exitStatus     \* one-shot run: the exit code of the ended child

probeVars == <<pc, phase, ret, ctxDone, proc, exitErr, waiter, done, stdinOpen,
          pipe, buf, stdoutClosed, rd, ch, pending, notifications, requestID,
          expectID, cursor, tools, success, wait, got, sent, emitted,
          skipped, pages, fromPending, reads>>

runBufs == <<stdoutBuf, stderrBuf, exitStatus>>
cliVars == <<file, clients, opts, opc, call, todo, store, out, runCtx, child, added,
             runBufs>>

lockVars == <<readerCount, writerPending, readerWait, readerSem, writerSem, w, tpc,
              active, wrote>>

launchVars == <<environ, nodeDirs, defEnv, extraEnv, cmdEnv, lpc>>

frameVars == <<stream, length, fpc, frame, consumed>>

vars == <<probeVars, cliVars, lockVars, launchVars, frameVars>>

\* What the steps of one part of the program leave alone.
outsideProbe == <<cliVars, lockVars, launchVars, frameVars>>
outsideCli == <<probeVars, lockVars, launchVars, frameVars>>
outsideStore == <<outsideCli, runBufs>>
outsideLock == <<probeVars, file, opts, opc, call, todo, store, out, runCtx, child,
                 added, runBufs, launchVars, frameVars>>
outsideLaunch == <<probeVars, cliVars, lockVars, frameVars>>
outsideFrame == <<probeVars, cliVars, lockVars, launchVars>>

mainVars == <<pc, phase, ret, stdinOpen, pending, notifications, requestID,
              expectID, cursor, tools, success, wait, got, sent, skipped,
              pages, fromPending, reads>>
envVars == <<ctxDone, proc, exitErr, waiter, done, pipe, buf, stdoutClosed, emitted>>

NoReturn == [res |-> NoResult, err |-> NoErr]

ProbeInit ==
    /\ pc = "lookup"
    /\ phase = "init"
    /\ ret = NoReturn
    /\ ctxDone = FALSE
    /\ proc = "unstarted"
    /\ exitErr = "nil"
    /\ waiter = "idle"
    /\ done = <<>>
    /\ stdinOpen = FALSE
    /\ pipe = <<>>
    /\ buf = <<>>
    /\ stdoutClosed = FALSE
    /\ rd = "none"
    /\ ch = NoChunk
    /\ pending = <<>>
    /\ notifications = <<>>
    /\ requestID = 0
    /\ expectID = ""
    /\ cursor = ""
    /\ tools = <<>>
    /\ success = FALSE
    /\ wait = 0
    /\ got = NoEnv
    /\ sent = <<>>
    /\ emitted = 0
    /\ skipped = FALSE
    /\ pages = <<>>
    /\ fromPending = FALSE
    /\ reads = 0

\* ------------------------------- registry, definition store, one-shot run

\* A string that is not valid UTF-8, and the string encoding/json writes
\* for it: every invalid byte becomes the replacement rune.
RawBytes == "<ff>"
Replaced == "<U+FFFD>"
ValidUTF8(s) == IF s = RawBytes THEN Replaced ELSE s

\* ServerDefinition. A slice and a map are nil or hold a value.
NilArgs == [nil |-> TRUE, items |-> <<>>]
Args(items) == [nil |-> FALSE, items |-> items]
NilEnv == [nil |-> TRUE, vars |-> {}]
Env(kvs) == [nil |-> FALSE, vars |-> kvs]
ServerDefinition(command, args, env, workdir, notes) ==
    [command |-> command, args |-> args, env |-> env, workdir |-> workdir,
     notes |-> notes]
NoDef == ServerDefinition("", NilArgs, NilEnv, "", "")

\* The definitions and aliases the callers pass.
DefSh == ServerDefinition("sh", NilArgs, NilEnv, "", "")
DefNpx == ServerDefinition("npx", Args(<<"-y">>), Env({<<"K", "v">>}), "/srv", "n")
DefNoCommand == ServerDefinition("", Args(<<>>), Env({}), "", "")
DefRaw == ServerDefinition(RawBytes, NilArgs, NilEnv, "", "")
Defs == {DefSh, DefNpx, DefNoCommand, DefRaw}
Aliases == {"", "github", "mine"}

\* json.MarshalIndent of a ServerDefinition: the JSON object of the struct
\* tags. A nil slice or map is null, notes is omitted when empty, strings
\* are coerced to valid UTF-8.
Marshal(def) ==
    [command |-> ValidUTF8(def.command),
     args |-> [null |-> def.args.nil,
               items |-> [i \in 1..Len(def.args.items) |-> ValidUTF8(def.args.items[i])]],
     env |-> [null |-> def.env.nil,
              vars |-> {<<ValidUTF8(kv[1]), ValidUTF8(kv[2])>> : kv \in def.env.vars}],
     workdir |-> ValidUTF8(def.workdir),
     hasNotes |-> def.notes # "",
     notes |-> ValidUTF8(def.notes)]

\* json.Unmarshal of such an object into a ServerDefinition.
Unmarshal(obj) ==
    [command |-> obj.command,
     args |-> [nil |-> obj.args.null, items |-> obj.args.items],
     env |-> [nil |-> obj.env.null, vars |-> obj.env.vars],
     workdir |-> obj.workdir,
     notes |-> IF obj.hasNotes THEN obj.notes ELSE ""]

\* A delete that leaves the map as it is.
MapKeep(m, k) == m

\* Maps keyed by alias.
EmptyMap == <<>>
\* An assignment that keeps the value a key already has.
MapPutIfAbsent(m, k, v) == [a \in DOMAIN m \cup {k} |-> IF a \in DOMAIN m THEN m[a] ELSE v]
MapPut(m, k, v) == [a \in DOMAIN m \cup {k} |-> IF a = k THEN v ELSE m[a]]
MapDelete(m, k) == [a \in DOMAIN m \ {k} |-> m[a]]

\* The store file: missing, a complete document {"mcpServers": {...}}, or
\* opened with O_TRUNC and not written yet (empty).
NoFile == [st |-> "missing", servers |-> EmptyMap]
Truncated == [st |-> "truncated", servers |-> EmptyMap]
Document(objs) == [st |-> "doc", servers |-> objs]

\* loadServerStore: os.ReadFile, json.Unmarshal, the nil map replaced.
loadServerStore(f) ==
    IF f.st = "missing" THEN [err |-> "not exist", Servers |-> EmptyMap]
    ELSE IF f.st = "truncated" THEN [err |-> "unmarshal", Servers |-> EmptyMap]
    ELSE [err |-> "", Servers |-> [a \in DOMAIN f.servers |-> Unmarshal(f.servers[a])]]

\* A document that holds only the entry of the running call.
StoreDocumentOfCall(servers) ==
    Document([a \in DOMAIN servers \cap {call.alias} |-> Marshal(servers[a])])

\* The document saveServerStore writes for a serverStore.
StoreDocument(servers) == Document([a \in DOMAIN servers |-> Marshal(servers[a])])

\* Registry entries.
SourceEmbedded == "embedded"
SourceConfig == "config"
SourceLocal == "local"
StorePath == "mcp/servers.json"
NoManifest == [name |-> "", from |-> ""]
Manifest(name, from) == [name |-> name, from |-> from]
ManifestClientKeepingDefinition(manifest, source, origin) ==
    [source |-> source, hasManifest |-> TRUE, manifest |-> manifest,
     hasDefinition |-> TRUE, def |-> [NoDef EXCEPT !.command = "sh"], origin |-> origin]
ManifestClient(manifest, source, origin) ==
    [source |-> source, hasManifest |-> TRUE, manifest |-> manifest,
     hasDefinition |-> FALSE, def |-> NoDef, origin |-> origin]
LocalClient(def, origin) ==
    [source |-> SourceLocal, hasManifest |-> FALSE, manifest |-> NoManifest,
     hasDefinition |-> TRUE, def |-> def, origin |-> origin]

\* The embedded defaults, and the aliases a configuration may declare.
defaultManifests == {"github", "files"}
ConfigAliases == {"github", "mine"}

\* What a call of the API returned.
NoCall == [op |-> "", alias |-> "", def |-> NoDef]
NoOut == [op |-> "", alias |-> "", err |-> "", def |-> NoDef, list |-> EmptyMap,
          child |-> "none", path |-> "", ctx |-> FALSE, code |-> 0,
          stdout |-> <<>>, stderr |-> <<>>, tail |-> <<>>]
Returned(op, alias, err) ==
    [op |-> op, alias |-> alias, err |-> err, def |-> NoDef, list |-> EmptyMap,
     child |-> "none", path |-> "", ctx |-> FALSE, code |-> 0,
     stdout |-> <<>>, stderr |-> <<>>, tail |-> <<>>]

\* No call of the API is running and none has run.
RegistryIdle ==
    /\ file = NoFile
    /\ clients = EmptyMap
    /\ opc = "idle"
    /\ call = NoCall
    /\ todo = {}
    /\ store = EmptyMap
    /\ out = NoOut
    /\ runCtx = FALSE
    /\ child = "none"
    /\ added = EmptyMap
    /\ stdoutBuf = <<>>
    /\ stderrBuf = <<>>
    /\ exitStatus = 0

\* The registry's lock as sync.RWMutex leaves it after construction; no
\* goroutine is inside the registry.
Goroutines == 1 .. NumGoroutines
NoWrite == [op |-> "", alias |-> "", entry |-> LocalClient(NoDef, "")]
LockIdle ==
    /\ readerCount = 0
    /\ writerPending = FALSE
    /\ readerWait = 0
    /\ readerSem = 0
    /\ writerSem = 0
    /\ w = 0
    /\ tpc = [t \in Goroutines |-> "idle"]
    /\ active = [t \in Goroutines |-> 0]
    /\ wrote = NoWrite

\* No launch has been asked for.
LaunchIdle ==
    /\ environ = EmptyMap
    /\ nodeDirs = <<>>
    /\ defEnv = EmptyMap
    /\ extraEnv = EmptyMap
    /\ cmdEnv = EmptyMap
    /\ lpc = "idle"

\* No frame is being read.
NoFrame == [err |-> "", body |-> <<>>, returned |-> FALSE]
FrameIdle ==
    /\ stream = <<>>
    /\ length = -1
    /\ fpc = "idle"
    /\ frame = NoFrame
    /\ consumed = <<>>

Elsewhere == LockIdle /\ LaunchIdle /\ FrameIdle

Init == ProbeInit /\ RegistryIdle /\ opts = {} /\ Elsewhere

\* ------------------------------------------------- the probe's goroutine

\* Whether the stderr buffer holds text when the return statement reads it:
\* the child may have written to its stderr at any moment before.
StderrTail == BOOLEAN

\* A write to the child's stdin succeeds while the child holds the read end.
WriteOK == proc = "running"

\* return nil, annotateProbeError(err, &stderr): the deferred shutdown runs next.
Fail(kind) ==
    /\ \E tail \in StderrTail :
         ret' = Failure(kind, tail, ProbeResult(tools, notifications))
    /\ pc' = "shutdown"

\* GetLocalServer and the empty-command check.
Lookup ==
    /\ pc = "lookup"
    /\ \E r \in {"ok", "unknown alias", "empty command"} :
         IF r = "ok"
         THEN pc' = "spawn" /\ ret' = ret
         ELSE pc' = "returned" /\ ret' = [res |-> NoResult, err |-> annotateProbeError(r, FALSE)]
    /\ UNCHANGED <<phase, stdinOpen, pending, notifications, requestID, expectID,
                   cursor, tools, success, wait, got, sent, skipped, pages,
                   fromPending, reads, rd, ch>>
    /\ UNCHANGED envVars
    /\ UNCHANGED outsideProbe

\* cmd.Start, the waiter goroutine, the reader and the writer.
Spawn ==
    /\ pc = "spawn"
    /\ \E ok \in BOOLEAN :
         IF ok /\ ~ctxDone
         THEN /\ proc' = "running"
              /\ waiter' = "waiting"
              /\ stdinOpen' = TRUE
              /\ requestID' = 1
              /\ pc' = "send_init"
              /\ ret' = ret
         ELSE /\ pc' = "returned"
              /\ ret' = [res |-> NoResult, err |-> annotateProbeError("failed to start", FALSE)]
              /\ UNCHANGED <<proc, waiter, stdinOpen, requestID>>
    /\ UNCHANGED <<phase, pending, notifications, expectID, cursor, tools, success,
                   wait, got, sent, skipped, pages, fromPending, reads, rd, ch>>
    /\ UNCHANGED <<ctxDone, exitErr, done, pipe, buf, stdoutClosed, emitted>>
    /\ UNCHANGED outsideProbe

\* sendJSONMessage(writer, initReq), then the call of awaitResponse.
SendInitialize ==
    /\ pc = "send_init"
    /\ IF WriteOK
       THEN /\ sent' = Append(sent, Request(requestID, "initialize", ""))
            /\ expectID' = Itoa(requestID)
            /\ pc' = "await"
            /\ ret' = ret
       ELSE Fail("write") /\ UNCHANGED <<sent, expectID>>
    /\ UNCHANGED <<phase, stdinOpen, pending, notifications, requestID, cursor,
                   tools, success, wait, got, skipped, pages, fromPending,
                   reads, rd, ch>>
    /\ UNCHANGED envVars
    /\ UNCHANGED outsideProbe

\* The top of the tools/list loop: the next id, the request, awaitResponse.
SendToolsList ==
    /\ pc = "send_list"
    /\ requestID' = requestID + 1
    /\ IF WriteOK
       THEN /\ sent' = Append(sent, Request(requestID + 1, "tools/list", cursor))
            /\ expectID' = Itoa(requestID + 1)
            /\ pc' = "await"
            /\ ret' = ret
       ELSE Fail("write") /\ UNCHANGED <<sent, expectID>>
    /\ UNCHANGED <<phase, stdinOpen, pending, notifications, cursor, tools, success,
                   wait, got, skipped, pages, fromPending, reads, rd, ch>>
    /\ UNCHANGED envVars
    /\ UNCHANGED outsideProbe

\* awaitResponse, before its loop: the pending map is looked up first.
AwaitEnter ==
    /\ pc = "await"
    /\ reads' = 0
    /\ IF expectID \in DOMAIN pending
       THEN /\ got' = pending[expectID]
            /\ pending' = [k \in DOMAIN pending \ {expectID} |-> pending[k]]
            /\ fromPending' = TRUE
            /\ pc' = "got"
       ELSE /\ fromPending' = FALSE
            /\ pc' = "await_select"
            /\ UNCHANGED <<got, pending>>
    /\ UNCHANGED <<phase, ret, stdinOpen, notifications, requestID, expectID, cursor,
                   tools, success, wait, sent, skipped, pages, rd, ch>>
    /\ UNCHANGED envVars
    /\ UNCHANGED outsideProbe

\* The select at the top of awaitResponse's loop; its default case starts
\* readFramedMessage, whose read runs in a goroutine of its own.
AwaitSelect ==
    /\ pc = "await_select"
    /\ \/ /\ ctxDone
          /\ Fail("context")
          /\ UNCHANGED <<done, rd, reads>>
       \/ /\ done # <<>>
          /\ done' = <<>>
          /\ Fail(IF Head(done) = "nil" THEN "server exited before response"
                  ELSE "server exited: wait error")
          /\ UNCHANGED <<rd, reads>>
       \/ /\ ~ctxDone
          /\ done = <<>>
          /\ rd' = "blocked"
          /\ reads' = reads + 1
          /\ pc' = "read_select"
          /\ UNCHANGED <<ret, done>>
    /\ UNCHANGED <<phase, stdinOpen, pending, notifications, requestID, expectID,
                   cursor, tools, success, wait, got, sent, skipped, pages,
                   fromPending, ch>>
    /\ UNCHANGED <<ctxDone, proc, exitErr, waiter, pipe, buf, stdoutClosed, emitted>>
    /\ UNCHANGED outsideProbe

\* What a read reports when there is nothing left to read.
ReadEOF == [w |-> "eof", env |-> NoEnv]
ReadClosed == [w |-> "closed", env |-> NoEnv]

\* The goroutine of readLineWithContext / readFullWithContext: one read of
\* the bufio.Reader, which refills from the pipe when its buffer is empty.
ReaderRead ==
    /\ pc = "read_select"
    /\ rd = "blocked"
    /\ IF buf # <<>>
       THEN ch' = Head(buf) /\ buf' = Tail(buf) /\ pipe' = pipe
       ELSE IF stdoutClosed
       THEN ch' = ReadClosed /\ UNCHANGED <<buf, pipe>>
       ELSE IF pipe # <<>>
       THEN ch' = Head(pipe) /\ buf' = Tail(pipe) /\ pipe' = <<>>
       ELSE /\ proc \in {"exited", "killed"}
            /\ ch' = ReadEOF
            /\ UNCHANGED <<buf, pipe>>
    /\ rd' = "ready"
    /\ UNCHANGED mainVars
    /\ UNCHANGED <<ctxDone, proc, exitErr, waiter, done, stdoutClosed, emitted>>
    /\ UNCHANGED outsideProbe

\* A loop that returns the first response it reads, whatever its id.
AwaitedAny(env) == TRUE

\* if id == expectID: the response is the one this call waits for.
Awaited(env) == rawMessageID(env.id).id = expectID

\* The envelope of a frame, as awaitResponse's loop body treats it.
Dispatch(env) ==
    IF env.id # NoId
    THEN IF ~rawMessageID(env.id).ok
         THEN Fail("unsupported id type")
              /\ UNCHANGED <<sent, got, pending, notifications>>
         ELSE IF env.method # ""
         THEN IF WriteOK
              THEN /\ sent' = Append(sent, respondMethodNotImplemented(env))
                   /\ pc' = "await_select"
                   /\ UNCHANGED <<ret, got, pending, notifications>>
              ELSE Fail("write")
                   /\ UNCHANGED <<sent, got, pending, notifications>>
         ELSE IF Awaited(env)
         THEN /\ got' = env
              /\ pc' = "got"
              /\ UNCHANGED <<ret, sent, pending, notifications>>
         ELSE /\ pending' = [k \in DOMAIN pending \cup {rawMessageID(env.id).id} |->
                               IF k = rawMessageID(env.id).id THEN env ELSE pending[k]]
              /\ pc' = "await_select"
              /\ UNCHANGED <<ret, sent, got, notifications>>
    ELSE IF env.method # ""
    THEN /\ notifications' = Append(notifications, Notification(env))
         /\ pc' = "await_select"
         /\ UNCHANGED <<ret, sent, got, pending>>
    ELSE /\ pc' = "await_select"
         /\ UNCHANGED <<ret, sent, got, pending, notifications>>

\* readFramedMessage on what the read goroutine delivered, then the decoding
\* of the body and the dispatch of the envelope.
TakeChunk ==
    /\ skipped' = (skipped \/ ch.w = "junk")
    /\ IF ch.w = "junk"
       THEN \* a line that is no Content-Length header is skipped: next read
            /\ rd' = "blocked"
            /\ reads' = reads + 1
            /\ UNCHANGED <<pc, ret, sent, got, pending, notifications>>
       ELSE /\ rd' = "none"
            /\ reads' = reads
            /\ IF ch.w \in {"eof", "closed"}
               THEN Fail(IF ch.w = "eof" THEN "read: EOF" ELSE "read: file already closed")
                    /\ UNCHANGED <<sent, got, pending, notifications>>
               ELSE IF ch.w = "badlen"
               THEN Fail("invalid content-length header")
                    /\ UNCHANGED <<sent, got, pending, notifications>>
               ELSE IF ch.w = "nojson"
               THEN Fail("decode jsonrpc envelope")
                    /\ UNCHANGED <<sent, got, pending, notifications>>
               ELSE Dispatch(ch.env)

\* A read that cannot be abandoned: the session takes what the read
\* delivers, and looks at the token only at the top of the loop.
ReadSelectWaits ==
    /\ pc = "read_select"
    /\ rd = "ready"
    /\ ch' = NoChunk
    /\ TakeChunk
    /\ UNCHANGED <<phase, stdinOpen, requestID, expectID, cursor, tools, success,
                   wait, pages, fromPending>>
    /\ UNCHANGED envVars
    /\ UNCHANGED outsideProbe

\* A read that is started again when the token fired: the session issues
\* the next read while the one it gave up may still run.
ReadSelectRetries ==
    /\ pc = "read_select"
    /\ \/ /\ ctxDone
          /\ reads' = reads + 1
          /\ UNCHANGED <<pc, ret, rd, ch, skipped, sent, got, pending, notifications>>
       \/ /\ rd = "ready"
          /\ ch' = NoChunk
          /\ TakeChunk
    /\ UNCHANGED <<phase, stdinOpen, requestID, expectID, cursor, tools, success,
                   wait, pages, fromPending>>
    /\ UNCHANGED envVars
    /\ UNCHANGED outsideProbe

\* The select of readLineWithContext / readFullWithContext.
ReadSelect ==
    /\ pc = "read_select"
    /\ \/ /\ ctxDone
          /\ Fail("context")
          /\ UNCHANGED <<rd, ch, reads, skipped, sent, got, pending, notifications>>
       \/ /\ rd = "ready"
          /\ ch' = NoChunk
          /\ TakeChunk
    /\ UNCHANGED <<phase, stdinOpen, requestID, expectID, cursor, tools, success,
                   wait, pages, fromPending>>
    /\ UNCHANGED envVars
    /\ UNCHANGED outsideProbe

\* After awaitResponse returned the initialize response.
HandleInit ==
    /\ pc = "got"
    /\ phase = "init"
    /\ IF got.error # ""
       THEN Fail("initialize failed") /\ UNCHANGED <<sent, phase>>
       ELSE IF ~DecodeOK(got.result)
       THEN Fail("decode initialize result") /\ UNCHANGED <<sent, phase>>
       ELSE IF WriteOK
       THEN /\ sent' = Append(sent, InitializedNote)
            /\ phase' = "tools"
            /\ pc' = "send_list"
            /\ ret' = ret
       ELSE Fail("write") /\ UNCHANGED <<sent, phase>>
    /\ UNCHANGED <<stdinOpen, pending, notifications, requestID, expectID, cursor,
                   tools, success, wait, got, skipped, pages, fromPending,
                   reads, rd, ch>>
    /\ UNCHANGED envVars
    /\ UNCHANGED outsideProbe

\* A loop that puts each page in front of the tools collected before.
PrependTools(ts, page) == Summaries(page.tools) \o ts

\* result.Tools after the loop over one page's tools array.
AppendTools(ts, page) == ts \o Summaries(page.tools)

\* The cursor that the next tools/list request carries.
NextCursor(cur, page) == page.next

\* After awaitResponse returned a tools/list response.
HandleList ==
    /\ pc = "got"
    /\ phase = "tools"
    /\ IF got.error # ""
       THEN Fail("tools/list failed") /\ UNCHANGED <<tools, pages, cursor, success>>
       ELSE IF ~DecodeOK(got.result)
       THEN Fail("decode tools/list") /\ UNCHANGED <<tools, pages, cursor, success>>
       ELSE /\ tools' = AppendTools(tools, got.result)
            /\ pages' = Append(pages, got.result)
            /\ IF got.result.next = ""
               THEN /\ success' = TRUE
                    /\ ret' = [res |-> ProbeResult(tools', notifications), err |-> NoErr]
                    /\ pc' = "shutdown"
                    /\ cursor' = cursor
               ELSE /\ cursor' = NextCursor(cursor, got.result)
                    /\ pc' = "send_list"
                    /\ UNCHANGED <<success, ret>>
    /\ UNCHANGED <<phase, stdinOpen, pending, notifications, requestID, expectID,
                   wait, got, sent, skipped, fromPending, reads, rd, ch>>
    /\ UNCHANGED envVars
    /\ UNCHANGED outsideProbe

\* ------------------------------------------------- the deferred shutdown

\* writer.Flush, stdinPipe.Close and the choice of the grace period. The
\* return statement has run: the locals of probeLocalServer that the deferred
\* function does not capture (the pending map, the cursor, the reader's
\* buffer, ...) are dead, and they are cleared here.
CloseStdin ==
    /\ pc = "shutdown"
    /\ stdinOpen' = FALSE
    /\ wait' = IF success THEN LongGrace ELSE ShortGrace
    /\ pc' = "shutdown_select"
    /\ pending' = <<>>
    /\ notifications' = <<>>
    /\ got' = NoEnv
    /\ expectID' = ""
    /\ cursor' = ""
    /\ tools' = <<>>
    /\ requestID' = 0
    /\ buf' = <<>>
    /\ ch' = NoChunk
    /\ phase' = "init"
    /\ fromPending' = FALSE
    /\ reads' = 0
    /\ UNCHANGED <<ret, success, sent, skipped, pages, rd>>
    /\ UNCHANGED <<ctxDone, proc, exitErr, waiter, done, pipe, stdoutClosed, emitted>>
    /\ UNCHANGED outsideProbe

\* A kill that sends no signal.
KillSkipped == UNCHANGED <<proc, exitErr>>

\* cmd.Process.Kill: a signal to a child that still runs.
Kill ==
    /\ proc' = IF proc = "running" THEN "killed" ELSE proc
    /\ exitErr' = IF proc = "running" THEN "err" ELSE exitErr

\* select { case err := <-done: ...; case <-time.After(wait): Kill; ... }
ShutdownSelect ==
    /\ pc = "shutdown_select"
    /\ \/ /\ done # <<>>
          /\ done' = <<>>
          /\ pc' = "returned"
          /\ UNCHANGED <<proc, exitErr>>
       \/ /\ Kill
          /\ pc' = "kill_wait"
          /\ done' = done
    /\ UNCHANGED <<phase, ret, stdinOpen, pending, notifications, requestID,
                   expectID, cursor, tools, success, wait, got, sent, skipped,
                   pages, fromPending, reads, rd, ch>>
    /\ UNCHANGED <<ctxDone, waiter, pipe, buf, stdoutClosed, emitted>>
    /\ UNCHANGED outsideProbe

\* A shutdown that returns after the kill without the receive from done.
KillNoWait ==
    /\ pc = "kill_wait"
    /\ pc' = "returned"
    /\ UNCHANGED <<phase, ret, stdinOpen, pending, notifications, requestID,
                   expectID, cursor, tools, success, wait, got, sent, skipped,
                   pages, fromPending, reads, rd, ch>>
    /\ UNCHANGED envVars
    /\ UNCHANGED outsideProbe

\* The receive <-done that follows the kill.
KillWait ==
    /\ pc = "kill_wait"
    /\ done # <<>>
    /\ done' = <<>>
    /\ pc' = "returned"
    /\ UNCHANGED <<phase, ret, stdinOpen, pending, notifications, requestID,
                   expectID, cursor, tools, success, wait, got, sent, skipped,
                   pages, fromPending, reads, rd, ch>>
    /\ UNCHANGED <<ctxDone, proc, exitErr, waiter, pipe, buf, stdoutClosed, emitted>>
    /\ UNCHANGED outsideProbe

\* ----------------------------------------- the child, the waiter, the context

\* The session still reads the child's output: once a return statement has
\* run, it is not looked at again.
Exchanging == pc \notin {"shutdown", "shutdown_select", "kill_wait", "returned"}

\* The child writes one chunk to its stdout.
ServerEmit ==
    /\ Exchanging
    /\ proc = "running"
    /\ emitted < MaxFrames
    /\ Len(pipe) + Len(buf) < MaxInFlight
    /\ \E c \in Menu : pipe' = Append(pipe, c)
    /\ emitted' = emitted + 1
    /\ UNCHANGED mainVars
    /\ UNCHANGED <<ctxDone, proc, exitErr, waiter, done, buf, stdoutClosed, rd, ch>>
    /\ UNCHANGED outsideProbe

\* The child exits by itself, with status 0 or not.
ServerExit ==
    /\ pc # "returned"
    /\ proc = "running"
    /\ proc' = "exited"
    /\ \E e \in {"nil", "err"} : exitErr' = e
    /\ UNCHANGED mainVars
    /\ UNCHANGED <<ctxDone, waiter, done, pipe, buf, stdoutClosed, emitted, rd, ch>>
    /\ UNCHANGED outsideProbe

\* The caller's deadline passes, or the caller cancels.
CtxFire ==
    /\ pc # "returned"
    /\ ~ctxDone
    /\ ctxDone' = TRUE
    /\ UNCHANGED mainVars
    /\ UNCHANGED <<proc, exitErr, waiter, done, pipe, buf, stdoutClosed, emitted, rd, ch>>
    /\ UNCHANGED outsideProbe

\* exec.CommandContext: the command's context goroutine kills the child
\* once the context is done.
CtxKill ==
    /\ pc # "returned"
    /\ ctxDone
    /\ proc = "running"
    /\ Kill
    /\ UNCHANGED mainVars
    /\ UNCHANGED <<ctxDone, waiter, done, pipe, buf, stdoutClosed, emitted, rd, ch>>
    /\ UNCHANGED outsideProbe

\* go func() { done <- cmd.Wait() }(): Wait returns once the child has
\* ended, after closing the read end of the stdout pipe: what the pipe
\* still held is gone.
WaiterFinish ==
    /\ pc # "returned"
    /\ waiter = "waiting"
    /\ proc \in {"exited", "killed"}
    /\ stdoutClosed' = TRUE
    /\ pipe' = <<>>
    /\ done' = Append(done, exitErr)
    /\ waiter' = "finished"
    /\ UNCHANGED mainVars
    /\ UNCHANGED <<ctxDone, proc, exitErr, buf, emitted, rd, ch>>
    /\ UNCHANGED outsideProbe

Next ==
    \/ Lookup
    \/ Spawn
    \/ SendInitialize
    \/ SendToolsList
    \/ AwaitEnter
    \/ AwaitSelect
    \/ ReaderRead
    \/ ReadSelect
    \/ HandleInit
    \/ HandleList
    \/ CloseStdin
    \/ ShutdownSelect
    \/ KillWait
    \/ ServerEmit
    \/ ServerExit
    \/ CtxFire
    \/ CtxKill
    \/ WaiterFinish

Spec == Init /\ [][Next]_vars

\* ------------------------------------------------------------- the registry

\* The return of a call: the caller is free to make the next one.
Return(result) ==
    /\ out' = result
    /\ opc' = "idle"
    /\ call' = NoCall
    /\ todo' = {}
    /\ store' = EmptyMap

\* A reset that keeps the entries.
ResetNothing == clients

\* Registry.Reset: the map the registry holds afterwards.
Reset == EmptyMap

\* Warmup: DefaultRegistry.Reset, and loadEmbeddedDefaults is entered.
Warmup ==
    /\ opc = "idle"
    /\ clients' = Reset
    /\ todo' = defaultManifests
    /\ opc' = "embedded"
    /\ call' = [op |-> "warmup", alias |-> "", def |-> NoDef]
    /\ out' = NoOut
    /\ UNCHANGED <<file, opts, store, runCtx, child, added>>
    /\ UNCHANGED outsideStore

\* One iteration of the range loop of loadEmbeddedDefaults, in the order
\* the map iteration happens to take; after the last one, Warmup's loop
\* over opts.MCPServers is entered.
loadEmbeddedDefaults ==
    /\ opc = "embedded"
    /\ \E alias \in todo :
         /\ clients' = MapPut(clients, alias, ManifestClient(Manifest(alias, "testdata"), SourceEmbedded, "embedded"))
         /\ todo' = IF todo = {alias} THEN opts ELSE todo \ {alias}
         /\ opc' = IF todo = {alias} THEN "config" ELSE "embedded"
    /\ UNCHANGED <<file, opts, call, store, out, runCtx, child, added>>
    /\ UNCHANGED outsideStore

\* One iteration of Warmup's loop over opts.MCPServers: LoadManifest reads
\* and parses the file at the location, which may fail.
LoadManifest ==
    /\ opc = "config"
    /\ \E alias \in todo, loaded \in BOOLEAN :
         IF loaded
         THEN /\ clients' = MapPut(clients, alias, ManifestClient(Manifest(alias, "location"), SourceConfig, alias))
              /\ todo' = todo \ {alias}
              /\ UNCHANGED <<opc, call, store, out>>
         ELSE /\ Return(Returned("warmup", "", "load manifest"))
              /\ clients' = clients
    /\ UNCHANGED <<file, opts, runCtx, child, added>>
    /\ UNCHANGED outsideStore

\* registerLocalServers: the store is loaded; a missing file is no error.
registerLocalServers ==
    /\ opc = "config"
    /\ todo = {}
    /\ LET ld == loadServerStore(file) IN
         IF ld.err = "not exist"
         THEN Return(Returned("warmup", "", ""))
         ELSE IF ld.err # ""
         THEN Return(Returned("warmup", "", ld.err))
         ELSE IF DOMAIN ld.Servers = {}
         THEN Return(Returned("warmup", "", ""))
         ELSE /\ store' = ld.Servers
              /\ todo' = DOMAIN ld.Servers
              /\ opc' = "local"
              /\ UNCHANGED <<call, out>>
    /\ UNCHANGED <<file, clients, opts, runCtx, child, added>>
    /\ UNCHANGED outsideStore

\* One iteration of the range loop of registerLocalServers; after the last
\* one Warmup returns nil.
RegisterLocal ==
    /\ opc = "local"
    /\ \E alias \in todo :
         /\ clients' = MapPut(clients, alias, LocalClient(store[alias], StorePath))
         /\ IF todo = {alias}
            THEN Return(Returned("warmup", "", ""))
            ELSE /\ todo' = todo \ {alias}
                 /\ UNCHANGED <<opc, call, store, out>>
    /\ UNCHANGED <<file, opts, runCtx, child, added>>
    /\ UNCHANGED outsideStore

\* ------------------------------------------------------ the definition store

\* AddLocalServer up to the call of saveServerStore: the two checks, the
\* load (a missing file gives an empty store) and the upsert in memory.
AddLocalServer(alias, def) ==
    /\ opc = "idle"
    /\ LET ld == loadServerStore(file) IN
         IF alias = ""
         THEN Return(Returned("add", alias, "alias cannot be empty"))
         ELSE IF def.command = ""
         THEN Return(Returned("add", alias, "server command cannot be empty"))
         ELSE IF ld.err \notin {"", "not exist"}
         THEN Return(Returned("add", alias, ld.err))
         ELSE /\ store' = MapPut(ld.Servers, alias, def)
              /\ call' = [op |-> "add", alias |-> alias, def |-> def]
              /\ opc' = "save"
              /\ out' = NoOut
              /\ todo' = {}
    /\ UNCHANGED <<file, clients, opts, runCtx, child, added>>
    /\ UNCHANGED outsideStore

\* RemoveLocalServer up to the call of saveServerStore.
RemoveLocalServer(alias) ==
    /\ opc = "idle"
    /\ LET ld == loadServerStore(file) IN
         IF ld.err = "not exist"
         THEN Return(Returned("remove", alias, "no MCP servers registered"))
         ELSE IF ld.err # ""
         THEN Return(Returned("remove", alias, ld.err))
         ELSE IF alias \notin DOMAIN ld.Servers
         THEN Return(Returned("remove", alias, "unknown MCP server"))
         ELSE /\ store' = MapDelete(ld.Servers, alias)
              /\ call' = [op |-> "remove", alias |-> alias, def |-> NoDef]
              /\ opc' = "save"
              /\ out' = NoOut
              /\ todo' = {}
    /\ UNCHANGED <<file, clients, opts, runCtx, child, added>>
    /\ UNCHANGED outsideStore

\* ------------------------------------------------------------------ mcp add

\* Definition files given to `mcp add`: a document with the mcpServers
\* object (the example of docs/mcp.md, whose single key is firecrawl-mcp, and
\* one with two entries), a bare definition, a file that is no JSON, and a
\* path that cannot be read.
FirecrawlFile ==
    [path |-> "configs/firecrawl.json", readable |-> TRUE, json |-> TRUE,
     servers |-> [a \in {"firecrawl-mcp"} |-> Marshal(DefNpx)], bare |-> Marshal(NoDef)]
TwoServersFile ==
    [path |-> "configs/two.json", readable |-> TRUE, json |-> TRUE,
     servers |-> [a \in {"github", "mine"} |-> IF a = "mine" THEN Marshal(DefNpx) ELSE Marshal(DefSh)],
     bare |-> Marshal(NoDef)]
BareFile ==
    [path |-> "configs/bare.json", readable |-> TRUE, json |-> TRUE,
     servers |-> EmptyMap, bare |-> Marshal(DefSh)]
NotJSONFile ==
    [path |-> "configs/notes.txt", readable |-> TRUE, json |-> FALSE,
     servers |-> EmptyMap, bare |-> Marshal(NoDef)]
MissingFile ==
    [path |-> "configs/none.json", readable |-> FALSE, json |-> FALSE,
     servers |-> EmptyMap, bare |-> Marshal(NoDef)]
DefinitionFiles == {FirecrawlFile, TwoServersFile, BareFile, NotJSONFile, MissingFile}

\* LoadLocalDefinitionFromFile: the store form is tried first; with an alias
\* the entry of that key is taken, without one the sole entry; a file with
\* no mcpServers entries is decoded as a single definition.
LoadLocalDefinitionFromFile(alias, f) ==
    IF ~f.readable THEN [err |-> "read file", def |-> NoDef]
    ELSE IF f.json /\ DOMAIN f.servers # {}
    THEN IF alias = ""
         THEN IF Cardinality(DOMAIN f.servers) = 1
              THEN [err |-> "", def |-> Unmarshal(f.servers[CHOOSE k \in DOMAIN f.servers : TRUE])]
              ELSE [err |-> "alias required when file contains multiple servers", def |-> NoDef]
         ELSE IF alias \in DOMAIN f.servers
         THEN [err |-> "", def |-> Unmarshal(f.servers[alias])]
         ELSE [err |-> "alias not found in file", def |-> NoDef]
    ELSE IF ~f.json THEN [err |-> "parse server definition", def |-> NoDef]
    ELSE [err |-> "", def |-> Unmarshal(f.bare)]

\* The command `mcp add <alias=path>`: splitAliasPath, then
\* LoadLocalDefinitionFromFile, then AddLocalServer.
McpAdd(alias, f) ==
    IF alias = ""
    THEN /\ opc = "idle"
         /\ Return([Returned("mcp add", alias, "invalid alias=path expression")
                      EXCEPT !.path = f.path])
         /\ UNCHANGED <<file, clients, opts, runCtx, child, added>>
         /\ UNCHANGED outsideStore
    ELSE IF LoadLocalDefinitionFromFile(alias, f).err # ""
    THEN /\ opc = "idle"
         /\ Return([Returned("mcp add", alias, LoadLocalDefinitionFromFile(alias, f).err)
                      EXCEPT !.path = f.path])
         /\ UNCHANGED <<file, clients, opts, runCtx, child, added>>
         /\ UNCHANGED outsideStore
    ELSE AddLocalServer(alias, LoadLocalDefinitionFromFile(alias, f).def)

\* saveServerStore up to the first effect of os.WriteFile: the file is
\* opened with O_CREATE and O_TRUNC, its old content is gone.
saveServerStore ==
    /\ opc = "save"
    /\ file' = Truncated
    /\ opc' = "write"
    /\ UNCHANGED <<clients, opts, call, todo, store, out, runCtx, child, added>>
    /\ UNCHANGED outsideStore

\* The rest of os.WriteFile (the document is written), and what the caller
\* of saveServerStore does next: RegisterLocal in AddLocalServer, Remove in
\* RemoveLocalServer, and the return of nil.
WriteFile ==
    /\ opc = "write"
    /\ file' = StoreDocument(store)
    /\ IF call.op = "add"
       THEN /\ clients' = MapPut(clients, call.alias, LocalClient(call.def, StorePath))
            /\ added' = MapPut(added, call.alias, call.def)
            /\ Return([Returned("add", call.alias, "") EXCEPT !.def = call.def])
       ELSE /\ clients' = MapDelete(clients, call.alias)
            /\ added' = MapDelete(added, call.alias)
            /\ Return(Returned("remove", call.alias, ""))
    /\ UNCHANGED <<opts, runCtx, child>>
    /\ UNCHANGED outsideStore

\* The process is interrupted (a signal, a power cut) between the two
\* effects of os.WriteFile: the registry is gone with the process, and the
\* next invocation starts with an empty one.
Interrupted ==
    /\ opc = "write"
    /\ clients' = EmptyMap
    /\ Return(NoOut)
    /\ UNCHANGED <<file, opts, runCtx, child, added>>
    /\ UNCHANGED outsideStore

\* ListLocalServers.
ListLocalServers ==
    /\ opc = "idle"
    /\ LET ld == loadServerStore(file) IN
         IF ld.err = "not exist"
         THEN Return(Returned("list", "", ""))
         ELSE IF ld.err # ""
         THEN Return(Returned("list", "", ld.err))
         ELSE Return([Returned("list", "", "") EXCEPT !.list = ld.Servers])
    /\ UNCHANGED <<file, clients, opts, runCtx, child, added>>
    /\ UNCHANGED outsideStore

\* A lookup that reports a missing store file as an empty definition.
StoredDefinitionLenient(f, alias) ==
    LET ld == loadServerStore(f) IN
    IF ld.err = "not exist" THEN [err |-> "", def |-> NoDef]
    ELSE IF ld.err # "" THEN [err |-> ld.err, def |-> NoDef]
    ELSE IF alias \notin DOMAIN ld.Servers THEN [err |-> "unknown MCP server", def |-> NoDef]
    ELSE [err |-> "", def |-> ld.Servers[alias]]

\* The value and error of GetLocalServer(alias) on the store file f.
StoredDefinition(f, alias) ==
    LET ld == loadServerStore(f) IN
    IF ld.err = "not exist" THEN [err |-> "no MCP servers registered", def |-> NoDef]
    ELSE IF ld.err # "" THEN [err |-> ld.err, def |-> NoDef]
    ELSE IF alias \notin DOMAIN ld.Servers THEN [err |-> "unknown MCP server", def |-> NoDef]
    ELSE [err |-> "", def |-> ld.Servers[alias]]

\* GetLocalServer.
GetLocalServer(alias) ==
    /\ opc = "idle"
    /\ Return([Returned("get", alias, StoredDefinition(file, alias).err)
                 EXCEPT !.def = StoredDefinition(file, alias).def])
    /\ UNCHANGED <<file, clients, opts, runCtx, child, added>>
    /\ UNCHANGED outsideStore

\* Another invocation of the CLI, serialized with this one, removed an alias
\* from the store file; this process's registry does not see it.
OtherInvocationRemove ==
    /\ opc = "idle"
    /\ file.st = "doc"
    /\ \E alias \in DOMAIN file.servers :
         /\ file' = Document(MapDelete(file.servers, alias))
         /\ added' = MapDelete(added, alias)
    /\ UNCHANGED <<clients, opts, opc, call, todo, store, out, runCtx, child>>
    /\ UNCHANGED outsideStore

\* ------------------------------------------------------------ one-shot run

\* The output of a child is a string written as runs: n bytes ch, one run
\* after the other, no two adjacent runs of the same byte.
Run(byte, n) == [ch |-> byte, n |-> n]
Whitespace == {" ", "\n"}
RECURSIVE StringLen(_)
StringLen(str) == IF str = <<>> THEN 0 ELSE Head(str).n + StringLen(Tail(str))

\* input[len(input)-max:]
RECURSIVE LastBytes(_, _)
LastBytes(str, max) ==
    IF str = <<>> \/ max = 0 THEN <<>>
    ELSE LET last == str[Len(str)]
             front == SubSeq(str, 1, Len(str) - 1)
         IN  IF last.n <= max
             THEN Append(LastBytes(front, max - last.n), last)
             ELSE <<Run(last.ch, max)>>

\* strings.TrimSpace
RECURSIVE TrimLeft(_)
TrimLeft(str) ==
    IF str # <<>> /\ Head(str).ch \in Whitespace THEN TrimLeft(Tail(str)) ELSE str
RECURSIVE TrimRight(_)
TrimRight(str) ==
    IF str # <<>> /\ str[Len(str)].ch \in Whitespace
    THEN TrimRight(SubSeq(str, 1, Len(str) - 1))
    ELSE str
TrimSpaceString(str) == TrimRight(TrimLeft(str))

TailLimit == 400
tailUntrimmed(input, max) ==
    IF StringLen(input) <= max THEN input ELSE LastBytes(input, max)
tail(input, max) ==
    IF StringLen(input) <= max
    THEN TrimSpaceString(input)
    ELSE TrimSpaceString(LastBytes(input, max))

\* What a child may have written, and the status it may exit with.
Hi == <<Run("h", 1), Run("i", 1), Run("\n", 1)>>
Outputs ==
    {[stdout |-> Hi, stderr |-> <<>>],
     [stdout |-> <<>>, stderr |-> <<Run("e", 5), Run("\n", 1)>>],
     [stdout |-> Hi,
      stderr |-> <<Run("e", 300), Run(" ", 50), Run("f", 200), Run("\n", 10)>>]}
ExitCodes == {1, 127}
Signaled == -1

\* RunLocalCommand up to cmd.Start inside cmd.Run: GetLocalServer, the
\* empty-command check of runCommandWithDefinition, buildCommand with
\* exec.CommandContext, and Start, which fails when the executable cannot
\* be started and returns the context's error when the context is done.
RunLocalCommand(alias) ==
    /\ opc = "idle"
    /\ LET found == StoredDefinition(file, alias) IN
         IF found.err # ""
         THEN Return(Returned("run", alias, found.err)) /\ UNCHANGED child
         ELSE IF found.def.command = ""
         THEN Return(Returned("run", alias, "server command is empty")) /\ UNCHANGED child
         ELSE \E ctxAlreadyDone \in BOOLEAN, started \in BOOLEAN :
                IF ctxAlreadyDone
                THEN Return(Returned("run", alias, "unable to execute: context"))
                     /\ UNCHANGED child
                ELSE IF ~started
                THEN Return(Returned("run", alias, "unable to execute"))
                     /\ UNCHANGED child
                ELSE /\ child' = "running"
                     /\ call' = [op |-> "run", alias |-> alias, def |-> found.def]
                     /\ opc' = "run"
                     /\ out' = NoOut
                     /\ UNCHANGED <<todo, store>>
    /\ UNCHANGED <<file, clients, opts, runCtx, added>>
    /\ UNCHANGED outsideStore

\* The child of the one-shot run exits, with status 0 or not, having
\* written its output.
ChildExit ==
    /\ opc = "run"
    /\ child = "running"
    /\ \/ child' = "exited 0" /\ exitStatus' = 0
       \/ child' = "exited nonzero" /\ exitStatus' \in ExitCodes
    /\ \E o \in Outputs : stdoutBuf' = o.stdout /\ stderrBuf' = o.stderr
    /\ UNCHANGED <<file, clients, opts, opc, call, todo, store, out, runCtx, added>>
    /\ UNCHANGED outsideCli

\* The caller's context is cancelled or passes its deadline during the run.
RunCtxFire ==
    /\ opc = "run"
    /\ ~runCtx
    /\ runCtx' = TRUE
    /\ UNCHANGED <<file, clients, opts, opc, call, todo, store, out, child, added>>
    /\ UNCHANGED outsideStore

\* exec.CommandContext: the child is killed once the context is done; it may
\* have written some output.
RunCtxKill ==
    /\ opc = "run"
    /\ runCtx
    /\ child = "running"
    /\ child' = "killed"
    /\ exitStatus' = Signaled
    /\ \E o \in Outputs : stdoutBuf' = o.stdout /\ stderrBuf' = o.stderr
    /\ UNCHANGED <<file, clients, opts, opc, call, todo, store, out, runCtx, added>>
    /\ UNCHANGED outsideCli

\* The errors cmd.Run may return for an ended child: an *exec.ExitError for
\* a child that was killed or exited with a status other than 0; for a
\* child that exited with status 0, nil, or the context's error when the
\* context was done before the child was reaped.
RunErrors(c, ctx) ==
    IF c = "exited 0"
    THEN (IF ctx THEN {"", "unable to execute: context"} ELSE {""})
    ELSE {"exited with code"}

\* The return of cmd.Run and of runCommandWithDefinition.
RunReturn ==
    /\ opc = "run"
    /\ child # "running"
    /\ \E err \in RunErrors(child, runCtx) :
         Return([Returned("run", call.alias, err) EXCEPT
                    !.child = child,
                    !.ctx = runCtx,
                    !.code = IF err = "exited with code" THEN exitStatus ELSE 0,
                    !.stdout = stdoutBuf,
                    !.stderr = stderrBuf,
                    !.tail = IF err = "exited with code"
                             THEN tail(stderrBuf, TailLimit) ELSE <<>>])
    /\ child' = "none"
    /\ runCtx' = FALSE
    /\ stdoutBuf' = <<>>
    /\ stderrBuf' = <<>>
    /\ exitStatus' = 0
    /\ UNCHANGED <<file, clients, opts, added>>
    /\ UNCHANGED outsideCli

StoreInit ==
    /\ ProbeInit
    /\ RegistryIdle
    /\ opts \in SUBSET ConfigAliases
    /\ Elsewhere

StoreNext ==
    \/ Warmup
    \/ loadEmbeddedDefaults
    \/ LoadManifest
    \/ registerLocalServers
    \/ RegisterLocal
    \/ \E alias \in Aliases, def \in Defs : AddLocalServer(alias, def)
    \/ \E alias \in Aliases : RemoveLocalServer(alias)
    \/ \E alias \in Aliases, f \in DefinitionFiles : McpAdd(alias, f)
    \/ saveServerStore
    \/ WriteFile
    \/ Interrupted
    \/ ListLocalServers
    \/ \E alias \in Aliases : GetLocalServer(alias)
    \/ OtherInvocationRemove
    \/ \E alias \in Aliases : RunLocalCommand(alias)
    \/ ChildExit
    \/ RunCtxFire
    \/ RunCtxKill
    \/ RunReturn

StoreSpec == StoreInit /\ [][StoreNext]_vars

\* ------------------------------------------------------ the registry's lock
\* Registry.mu is a sync.RWMutex.  Each goroutine calls one registry method
\* after another; a step is one atomic operation of the mutex or the body of
\* the method.

\* What the registry's callers register.
Registered == {"github", "mine"}
Entries(alias) ==
    {ManifestClient(Manifest(alias, "location"), SourceConfig, alias),
     LocalClient(DefSh, StorePath)}

\* Lock: the announced writer sleeps when readers were active and have not all
\* left yet.
WriterNeverWaits(r, rw) == FALSE
MustWait(r, rw) == r # 0 /\ rw # 0

\* Unlock: one wake-up for each reader that asked while the writer was announced.
Wakeups(r) == r

At(t, where) == tpc[t] = where
Goto(t, where) == tpc' = [tpc EXCEPT ![t] = where]

\* A goroutine calls Get, List or Snapshot.
CallRead(t) ==
    /\ At(t, "idle")
    /\ Goto(t, "rlock")
    /\ UNCHANGED <<readerCount, writerPending, readerWait, readerSem, writerSem, w,
                   active, wrote, clients>>
    /\ UNCHANGED outsideLock

\* A goroutine calls Reset, RegisterManifest, RegisterLocal or Remove.
CallWrite(t) ==
    /\ At(t, "idle")
    /\ Goto(t, "lock")
    /\ UNCHANGED <<readerCount, writerPending, readerWait, readerSem, writerSem, w,
                   active, wrote, clients>>
    /\ UNCHANGED outsideLock

\* r.mu.RLock(): readerCount.Add(1); a negative result (a writer is announced)
\* sends the reader to sleep on readerSem.  The reader keeps the sign of the
\* result only.
RLock(t) ==
    /\ At(t, "rlock")
    /\ readerCount' = readerCount + 1
    /\ active' = [active EXCEPT ![t] = IF writerPending THEN -1 ELSE 0]
    /\ Goto(t, IF writerPending THEN "rwait" ELSE "rcs")
    /\ UNCHANGED <<writerPending, readerWait, readerSem, writerSem, w, wrote, clients>>
    /\ UNCHANGED outsideLock

\* The sleeping reader takes a wake-up.
RLockWake(t) ==
    /\ At(t, "rwait")
    /\ readerSem > 0
    /\ readerSem' = readerSem - 1
    /\ Goto(t, "rcs")
    /\ UNCHANGED <<readerCount, writerPending, readerWait, writerSem, w, active, wrote,
                   clients>>
    /\ UNCHANGED outsideLock

\* The body of Get, List or Snapshot: it reads r.clients.
ReadClients(t) ==
    /\ At(t, "rcs")
    /\ Goto(t, "runlock")
    /\ UNCHANGED <<readerCount, writerPending, readerWait, readerSem, writerSem, w,
                   active, wrote, clients>>
    /\ UNCHANGED outsideLock

\* The deferred r.mu.RUnlock(): readerCount.Add(-1); a negative result takes
\* the slow path.
RUnlock(t) ==
    /\ At(t, "runlock")
    /\ readerCount' = readerCount - 1
    /\ active' = [active EXCEPT ![t] = 0]
    /\ Goto(t, IF writerPending THEN "rslow" ELSE "idle")
    /\ UNCHANGED <<writerPending, readerWait, readerSem, writerSem, w, wrote, clients>>
    /\ UNCHANGED outsideLock

\* rUnlockSlow: the last departing reader wakes the writer.
RUnlockSlow(t) ==
    /\ At(t, "rslow")
    /\ readerWait' = readerWait - 1
    /\ writerSem' = IF readerWait - 1 = 0 THEN writerSem + 1 ELSE writerSem
    /\ Goto(t, "idle")
    /\ UNCHANGED <<readerCount, writerPending, readerSem, w, active, wrote, clients>>
    /\ UNCHANGED outsideLock

\* r.mu.Lock(), first: the writers' mutex.
LockMutex(t) ==
    /\ At(t, "lock")
    /\ w = 0
    /\ w' = t
    /\ Goto(t, "announce")
    /\ UNCHANGED <<readerCount, writerPending, readerWait, readerSem, writerSem,
                   active, wrote, clients>>
    /\ UNCHANGED outsideLock

\* Lock, second: readerCount.Add(-rwmutexMaxReaders) announces the writer and
\* tells it how many readers are active.
LockAnnounce(t) ==
    /\ At(t, "announce")
    /\ writerPending' = TRUE
    /\ active' = [active EXCEPT ![t] = readerCount]
    /\ Goto(t, "lcount")
    /\ UNCHANGED <<readerCount, readerWait, readerSem, writerSem, w, wrote, clients>>
    /\ UNCHANGED outsideLock

\* Lock, third: if r != 0 && readerWait.Add(r) != 0 the writer sleeps.
LockCount(t) ==
    /\ At(t, "lcount")
    /\ readerWait' = IF active[t] # 0 THEN readerWait + active[t] ELSE readerWait
    /\ active' = [active EXCEPT ![t] = 0]
    /\ Goto(t, IF MustWait(active[t], readerWait + active[t]) THEN "lwait" ELSE "wcs")
    /\ UNCHANGED <<readerCount, writerPending, readerSem, writerSem, w, wrote, clients>>
    /\ UNCHANGED outsideLock

\* The sleeping writer takes its wake-up.
LockWake(t) ==
    /\ At(t, "lwait")
    /\ writerSem > 0
    /\ writerSem' = writerSem - 1
    /\ Goto(t, "wcs")
    /\ UNCHANGED <<readerCount, writerPending, readerWait, readerSem, w, active, wrote,
                   clients>>
    /\ UNCHANGED outsideLock

\* The bodies of the mutating methods.
Mutate(t, op, alias, entry, after) ==
    /\ At(t, "wcs")
    /\ clients' = after
    /\ wrote' = [op |-> op, alias |-> alias, entry |-> entry]
    /\ Goto(t, "unlock")
    /\ UNCHANGED <<readerCount, writerPending, readerWait, readerSem, writerSem, w,
                   active>>
    /\ UNCHANGED outsideLock

RegistryReset(t) == Mutate(t, "Reset", "", NoWrite.entry, EmptyMap)

RegisterManifest(t, alias) ==
    LET entry == ManifestClient(Manifest(alias, "location"), SourceConfig, alias)
    IN  Mutate(t, "RegisterManifest", alias, entry, MapPut(clients, alias, entry))

RegistryRegisterLocal(t, alias) ==
    LET entry == LocalClient(DefSh, StorePath)
    IN  Mutate(t, "RegisterLocal", alias, entry, MapPut(clients, alias, entry))

RegistryRemove(t, alias) ==
    Mutate(t, "Remove", alias, NoWrite.entry, MapDelete(clients, alias))

\* The deferred r.mu.Unlock(), first: readerCount.Add(rwmutexMaxReaders)
\* withdraws the announcement and counts the readers that asked meanwhile.
Unlock(t) ==
    /\ At(t, "unlock")
    /\ writerPending' = FALSE
    /\ active' = [active EXCEPT ![t] = readerCount]
    /\ Goto(t, "release")
    /\ UNCHANGED <<readerCount, readerWait, readerSem, writerSem, w, wrote, clients>>
    /\ UNCHANGED outsideLock

\* Unlock, second: a wake-up for each of them.
UnlockRelease(t) ==
    /\ At(t, "release")
    /\ readerSem' = readerSem + Wakeups(active[t])
    /\ active' = [active EXCEPT ![t] = 0]
    /\ Goto(t, "unmutex")
    /\ UNCHANGED <<readerCount, writerPending, readerWait, writerSem, w, wrote, clients>>
    /\ UNCHANGED outsideLock

\* Unlock, third: the writers' mutex.
UnlockMutex(t) ==
    /\ At(t, "unmutex")
    /\ w' = 0
    /\ Goto(t, "idle")
    /\ UNCHANGED <<readerCount, writerPending, readerWait, readerSem, writerSem,
                   active, wrote, clients>>
    /\ UNCHANGED outsideLock

\* What a goroutine does once it is inside a registry method.
Proceed(t) ==
    \/ RLock(t)
    \/ RLockWake(t)
    \/ ReadClients(t)
    \/ RUnlock(t)
    \/ RUnlockSlow(t)
    \/ LockMutex(t)
    \/ LockAnnounce(t)
    \/ LockCount(t)
    \/ LockWake(t)
    \/ RegistryReset(t)
    \/ \E alias \in Registered : RegisterManifest(t, alias)
    \/ \E alias \in Registered : RegistryRegisterLocal(t, alias)
    \/ \E alias \in Registered : RegistryRemove(t, alias)
    \/ Unlock(t)
    \/ UnlockRelease(t)
    \/ UnlockMutex(t)

LockInit == ProbeInit /\ RegistryIdle /\ opts = {} /\ Elsewhere

LockNext ==
    \/ \E t \in Goroutines : CallRead(t)
    \/ \E t \in Goroutines : CallWrite(t)
    \/ \E t \in Goroutines : Proceed(t)

LockSpec == LockInit /\ [][LockNext]_vars

\* The scheduler runs every goroutine that can take a step; whether and when a
\* goroutine calls the registry is up to the caller.
LockFairSpec == LockSpec /\ \A t \in Goroutines : WF_vars(Proceed(t))

\* ------------------------------------------------- the child's environment
\* An environment is a map from keys to values.  A value is a list of entries,
\* as strings.Split(value, os.PathListSeparator) gives them: <<>> is the empty
\* string, a plain value is a list of one entry.  An entry records its spelling
\* in lower case, whether it is spelled with capitals, and whether blanks
\* surround it.
Entry(name, upper, pad) == [name |-> name, upper |-> upper, pad |-> pad]
Plain(v) == <<Entry(v, FALSE, FALSE)>>
EmptyString == <<>>
ToLower(e) == [e EXCEPT !.upper = FALSE]
TrimSpace(e) == [e EXCEPT !.pad = FALSE]
IsEmpty(e) == e.name = "" /\ ~e.pad

\* Directories and PATH values of the model.
DirBin == Entry("/usr/bin", FALSE, FALSE)
DirBinCapitals == Entry("/usr/bin", TRUE, FALSE)
DirBinPadded == Entry("/usr/bin", FALSE, TRUE)
DirNode == Entry("third_party/node/v20/bin", FALSE, FALSE)
DirNodeCapitals == Entry("third_party/node/v20/bin", TRUE, FALSE)
DirNode18 == Entry("third_party/node/v18/bin", FALSE, FALSE)
Blanks == Entry("", FALSE, TRUE)
PathValues ==
    {EmptyString, <<DirBin>>, <<DirBin, DirBinCapitals>>,
     <<DirBinPadded, Blanks, DirNodeCapitals>>}

\* What localNodeBinDirs can return: no two directories equal up to case.
NodeDirLists == {<<>>, <<DirNode>>, <<DirNode18, DirNode>>}

\* The environments of the model.
Absent == "absent"
AbsentPath == <<Entry(Absent, FALSE, FALSE)>>
EnvOf(a, b, path) ==
    [k \in ({"A" : x \in {a} \ {Absent}} \cup {"B" : x \in {b} \ {Absent}}
            \cup {"PATH" : x \in {path} \ {AbsentPath}}) |->
        IF k = "A" THEN Plain(a) ELSE IF k = "B" THEN Plain(b) ELSE path]
BaseEnvs ==
    {[k \in DOMAIN e \cup {"HOME"} |-> IF k = "HOME" THEN Plain("/root") ELSE e[k]] :
        e \in {EnvOf(a, Absent, path) : a \in {Absent, "1"},
                                        path \in PathValues \cup {AbsentPath}}}
DefEnvs == {EnvOf(a, b, path) : a \in {Absent, "2"}, b \in {Absent, "3"},
                                path \in {AbsentPath, <<DirBin, DirBinCapitals>>}}
ExtraEnvs == {EnvOf(a, b, path) : a \in {Absent, "5"}, b \in {Absent, "4"},
                                  path \in {AbsentPath, <<DirBinPadded>>}}

\* for k, v := range over { envMap[k] = v }
OverlayBaseWins(base, over) ==
    [k \in DOMAIN base \cup DOMAIN over |-> IF k \in DOMAIN base THEN base[k] ELSE over[k]]
Overlay(base, over) ==
    [k \in DOMAIN base \cup DOMAIN over |-> IF k \in DOMAIN over THEN over[k] ELSE base[k]]

\* envMap[key] of a Go map: the empty string for a missing key.
ValueOf(m, k) == IF k \in DOMAIN m THEN m[k] ELSE EmptyString

\* The loops of ensureNodeInPath: the entries of parts whose lower-case
\* spelling was not seen yet, in order, after pieces.
RECURSIVE AppendUnseen(_, _, _)
AppendUnseen(parts, trim, pieces) ==
    IF parts = <<>> THEN pieces
    ELSE LET part == IF trim THEN TrimSpace(Head(parts)) ELSE Head(parts)
             seen == {ToLower(pieces[i]) : i \in 1 .. Len(pieces)}
         IN  IF IsEmpty(part) \/ ToLower(part) \in seen
             THEN AppendUnseen(Tail(parts), trim, pieces)
             ELSE AppendUnseen(Tail(parts), trim, Append(pieces, part))

ensureNodeInPath(dirs, existing) ==
    IF Len(dirs) = 0 THEN existing
    ELSE AppendUnseen(existing, TRUE, AppendUnseen(dirs, FALSE, <<>>))

mergeEnv(base, dirs, custom) ==
    LET envMap == Overlay(base, custom)
    IN  [k \in DOMAIN envMap \cup {"PATH"} |->
            IF k = "PATH" THEN ensureNodeInPath(dirs, ValueOf(envMap, "PATH"))
            ELSE envMap[k]]

\* buildCommand for a definition with environment def and a call with
\* environment extra.
BuildCommand(def, extra) ==
    /\ lpc = "idle"
    /\ defEnv' = def
    /\ extraEnv' = extra
    /\ cmdEnv' = mergeEnv(environ, nodeDirs, Overlay(def, extra))
    /\ lpc' = "built"
    /\ UNCHANGED <<environ, nodeDirs>>
    /\ UNCHANGED outsideLaunch

\* The command has run; the launcher is asked again.
LaunchDone ==
    /\ lpc = "built"
    /\ defEnv' = EmptyMap
    /\ extraEnv' = EmptyMap
    /\ cmdEnv' = EmptyMap
    /\ lpc' = "idle"
    /\ UNCHANGED <<environ, nodeDirs>>
    /\ UNCHANGED outsideLaunch

LaunchInit ==
    /\ ProbeInit /\ RegistryIdle /\ opts = {} /\ LockIdle /\ FrameIdle
    /\ environ \in BaseEnvs
    /\ nodeDirs \in NodeDirLists
    /\ defEnv = EmptyMap
    /\ extraEnv = EmptyMap
    /\ cmdEnv = EmptyMap
    /\ lpc = "idle"

LaunchNext ==
    \/ \E def \in DefEnvs, extra \in ExtraEnvs : BuildCommand(def, extra)
    \/ LaunchDone

LaunchSpec == LaunchInit /\ [][LaunchNext]_vars

\* ---------------------------------------------------------- the frame reader
\* The child's stdout as the bufio.Reader delivers it: a sequence of units.
\* A unit is one byte, but for the name of the header, which is one unit
\* whole; the model's lengths count units.
HeaderName == "Content-Length:"
HeaderNameLower == "content-length:"
NL == "\n"
CR == "\r"
SP == " "
Spaces == {NL, CR, SP}
Digits == {"0", "1", "2", "3"}
DigitValue(d) == IF d = "0" THEN 0 ELSE IF d = "1" THEN 1 ELSE IF d = "2" THEN 2 ELSE 3

\* The pieces a child's output is made of.
GoodFrame == <<HeaderName, SP, "2", NL, NL, "{", "}">>
CrLfFrame == <<HeaderNameLower, "2", CR, NL, CR, NL, "{", "}">>
ShortFrame == <<HeaderName, SP, "1", NL, NL, "{", "}">>
LongFrame == <<HeaderName, SP, "3", NL, NL, "{", "}">>
BlankLine == <<NL>>
NegativeFrame == <<HeaderName, SP, "-", "1", NL, NL, "{", "}">>
NotNumericFrame == <<HeaderName, SP, "x", NL, NL, "{", "}">>
BannerLine == <<"x", SP, "x", NL>>
Segments ==
    {GoodFrame, CrLfFrame, ShortFrame, LongFrame, BlankLine, NegativeFrame,
     NotNumericFrame, BannerLine}

RECURSIVE Concat(_)
Concat(segs) == IF segs = <<>> THEN <<>> ELSE Head(segs) \o Concat(Tail(segs))
Streams == {Concat(segs) : segs \in UNION {[1 .. n -> Segments] : n \in 1 .. MaxSegments}}

\* strings.TrimSpace of a line or a value.
RECURSIVE TrimFront(_)
TrimFront(units) ==
    IF units # <<>> /\ Head(units) \in Spaces THEN TrimFront(Tail(units)) ELSE units
RECURSIVE TrimBack(_)
TrimBack(units) ==
    IF units # <<>> /\ units[Len(units)] \in Spaces
    THEN TrimBack(SubSeq(units, 1, Len(units) - 1))
    ELSE units
TrimLine(units) == TrimBack(TrimFront(units))

\* strings.HasPrefix(strings.ToLower(line), "content-length:")
HasLengthPrefix(line) == line # <<>> /\ Head(line) \in {HeaderName, HeaderNameLower}

\* strconv.Atoi: an optional sign and at least one digit, nothing else.
RECURSIVE DecimalValue(_)
DecimalValue(ds) ==
    IF ds = <<>> THEN 0 ELSE 10 * DecimalValue(SubSeq(ds, 1, Len(ds) - 1)) + DigitValue(ds[Len(ds)])
AllDigits(ds) == ds # <<>> /\ \A i \in 1 .. Len(ds) : ds[i] \in Digits
Atoi(value) ==
    IF value # <<>> /\ Head(value) \in {"-", "+"}
    THEN IF AllDigits(Tail(value))
         THEN [ok |-> TRUE, n |-> IF Head(value) = "-" THEN 0 - DecimalValue(Tail(value))
                                  ELSE DecimalValue(Tail(value))]
         ELSE [ok |-> FALSE, n |-> 0]
    ELSE IF AllDigits(value) THEN [ok |-> TRUE, n |-> DecimalValue(value)]
    ELSE [ok |-> FALSE, n |-> 0]

\* reader.ReadString('\n'): the units up to and including the first newline.
HasLine(units) == \E i \in 1 .. Len(units) : units[i] = NL
LineEnd(units) == CHOOSE i \in 1 .. Len(units) : units[i] = NL /\ \A j \in 1 .. (i - 1) : units[j] # NL

\* io.ReadFull: the first n units, and what it leaves in the reader.
DropOneMore(units, n) == SubSeq(units, n + 2, Len(units))
Drop(units, n) == SubSeq(units, n + 1, Len(units))
Take(units, n) == SubSeq(units, 1, n)

\* json.Unmarshal of a body into the envelope: the only JSON document of the
\* model's streams is {}, with blanks around or inside it.
IsNotSpace(u) == u \notin Spaces
UnmarshalEnvelope(body) == SelectSeq(body, IsNotSpace) = <<"{", "}">>

FrameError(err) == [err |-> err, body |-> <<>>, returned |-> TRUE]

\* awaitResponse calls readFramedMessage.
ReadFramedMessage ==
    /\ fpc = "idle"
    /\ length' = -1
    /\ consumed' = <<>>
    /\ frame' = NoFrame
    /\ fpc' = "line"
    /\ UNCHANGED stream
    /\ UNCHANGED outsideFrame

\* One turn of the loop of readFramedMessage: a line is read and looked at.
ReadLine ==
    /\ fpc = "line"
    /\ IF ~HasLine(stream)
       THEN /\ stream' = <<>>
            /\ consumed' = consumed \o stream
            /\ frame' = FrameError("EOF")
            /\ fpc' = "failed"
            /\ UNCHANGED length
       ELSE LET raw == Take(stream, LineEnd(stream))
                line == TrimLine(raw)
            IN  /\ stream' = Drop(stream, LineEnd(stream))
                /\ consumed' = consumed \o raw
                /\ IF line = <<>>
                   THEN /\ fpc' = IF length >= 0 THEN "body" ELSE "line"
                        /\ UNCHANGED <<length, frame>>
                   ELSE IF HasLengthPrefix(line)
                   THEN LET l == Atoi(TrimLine(Tail(line)))
                        IN  IF l.ok
                            THEN /\ length' = l.n
                                 /\ UNCHANGED <<frame, fpc>>
                            ELSE /\ frame' = FrameError("invalid content-length header")
                                 /\ fpc' = "failed"
                                 /\ UNCHANGED length
                   ELSE UNCHANGED <<length, frame, fpc>>
    /\ UNCHANGED outsideFrame

\* After the loop: the length check and readFullWithContext.
ReadBody ==
    /\ fpc = "body"
    /\ IF length < 0
       THEN /\ frame' = FrameError("missing Content-Length header")
            /\ fpc' = "failed"
            /\ UNCHANGED <<stream, consumed>>
       ELSE IF Len(stream) < length
       THEN /\ stream' = <<>>
            /\ consumed' = consumed \o stream
            /\ frame' = FrameError(IF stream = <<>> THEN "EOF" ELSE "unexpected EOF")
            /\ fpc' = "failed"
       ELSE /\ stream' = Drop(stream, length)
            /\ consumed' = consumed \o Take(stream, length)
            /\ frame' = [err |-> "", body |-> Take(stream, length), returned |-> TRUE]
            /\ fpc' = "read"
    /\ UNCHANGED length
    /\ UNCHANGED outsideFrame

\* The context is done while a read is awaited.
ReadCancelled ==
    /\ fpc \in {"line", "body"}
    /\ frame' = FrameError("context")
    /\ fpc' = "failed"
    /\ UNCHANGED <<stream, length, consumed>>
    /\ UNCHANGED outsideFrame

\* awaitResponse decodes the body; after a message it reads on or returns.
DecodeEnvelope ==
    /\ fpc = "read"
    /\ IF UnmarshalEnvelope(frame.body)
       THEN fpc' = "idle" /\ UNCHANGED frame
       ELSE fpc' = "failed" /\ frame' = [frame EXCEPT !.err = "decode jsonrpc envelope"]
    /\ UNCHANGED <<stream, length, consumed>>
    /\ UNCHANGED outsideFrame

FrameInit ==
    /\ ProbeInit /\ RegistryIdle /\ opts = {} /\ LockIdle /\ LaunchIdle
    /\ stream \in Streams
    /\ length = -1
    /\ fpc = "idle"
    /\ frame = NoFrame
    /\ consumed = <<>>

FrameNext ==
    \/ ReadFramedMessage
    \/ ReadLine
    \/ ReadBody
    \/ ReadCancelled
    \/ DecodeEnvelope

FrameSpec == FrameInit /\ [][FrameNext]_vars

\* ------------------------------------------------------------ the claims

Returning == pc \in {"shutdown", "shutdown_select", "kill_wait", "returned"}
ReadErrors == {"read: EOF", "read: file already closed"}

\* TestLocalServer: the error of a probe, its result dropped.
TestLocalServer == ret.err

\* The probe waits in its last receive from done, the waiter has already
\* sent its one value and that value has been received: nothing can wake it.
ProbeStuck == pc = "kill_wait" /\ done = <<>> /\ waiter = "finished"

\* C1: every call of ProbeLocalServer returns exactly one terminal outcome,
\* a result or one error, whatever the child does, and never blocks forever,
\* the shutdown that follows a "server exited" of awaitResponse included.
C1_OneTerminalOutcome ==
    /\ ~ProbeStuck
    /\ pc = "returned" => (ret.res.ok <=> ret.err = NoErr)

\* C2: ProbeLocalServer never returns a partial result: a failing return
\* carries no result and an error; a result is returned only with no error,
\* after the last tools/list page (the one without nextCursor) was decoded.
C2_NoPartialResult ==
    Returning =>
        \/ ret.res = NoResult /\ ret.err # NoErr
        \/ /\ ret.res.ok
           /\ ret.err = NoErr
           /\ pages # <<>>
           /\ pages[Len(pages)].next = ""
           /\ success

\* C2 witness: a probe failed after it had decoded a page of tools.
C2_Witness == pc = "returned" /\ ret.err # NoErr /\ pages # <<>>

\* C3: when the server never answers initialize before the caller's deadline
\* passes, the probe returns the context's error (no read error, no "server
\* exited") and the child has been killed when the call returns.
C3_DeadlineGivesContextError ==
    (Returning /\ ctxDone /\ emitted = 0 /\ proc # "exited" /\ Len(sent) = 1)
        => ret.err.kind = "context" /\ (pc = "returned" => proc = "killed")

\* C4: when the child exits before the awaited response arrives,
\* awaitResponse reports that the server exited, whatever the moment of the
\* exit: it never reports the end of the stream as a read error.
C4_ExitReportedAsServerExited ==
    (Returning /\ proc = "exited" /\ ~ctxDone) => ret.err.kind \notin ReadErrors

\* C5: for a server that exits before answering the current request the
\* probe's error is "server exited: <wait error>" when the wait result is an
\* error and "server exited before response" when the exit was clean, and no
\* other kind, under any interleaving of the frame reader and the waiter.
C5_TwoExitErrors ==
    (Returning /\ proc = "exited" /\ ~ctxDone /\ emitted = 0 /\ Len(sent) = 1)
        => ret.err.kind = (IF exitErr = "nil" THEN "server exited before response"
                           ELSE "server exited: wait error")

\* C3 scenario reached with the expected outcome: the deadline passed on a
\* silent child, the probe returned the context's error, the child is killed.
C3_Scenario ==
    /\ pc = "returned" /\ ctxDone /\ emitted = 0 /\ proc = "killed"
    /\ ret.err.kind = "context"

\* The step in which the session takes what a read delivered.
TakeStep == pc = "read_select" /\ rd = "ready" /\ rd' # "ready"

IsResponse(c) ==
    c.w = "frame" /\ c.env.id # NoId /\ c.env.method = "" /\ rawMessageID(c.env.id).ok
HasIdAndMethod(c) == c.w = "frame" /\ c.env.id # NoId /\ c.env.method # ""

\* C6: out-of-order responses are resolved correctly: a response for another
\* id is stored in the pending map under its id and the wait goes on; the
\* awaited response is returned to the current call; a later await of a
\* stored id returns the stored envelope without reading; every envelope an
\* await returns has the id it awaited.
C6_OutOfOrder ==
    /\ [](\A k \in DOMAIN pending :
            /\ pending[k].method = ""
            /\ rawMessageID(pending[k].id) = [ok |-> TRUE, id |-> k])
    /\ [](pc = "got" =>
            /\ rawMessageID(got.id) = [ok |-> TRUE, id |-> expectID]
            /\ got.method = ""
            /\ fromPending => reads = 0)
    /\ [][(TakeStep /\ IsResponse(ch) /\ rawMessageID(ch.env.id).id # expectID)
            => /\ pc' = "await_select"
               /\ rawMessageID(ch.env.id).id \in DOMAIN pending'
               /\ pending'[rawMessageID(ch.env.id).id] = ch.env
               /\ \A k \in DOMAIN pending \ {rawMessageID(ch.env.id).id} :
                    k \in DOMAIN pending' /\ pending'[k] = pending[k]]_vars
    /\ [][(TakeStep /\ IsResponse(ch) /\ rawMessageID(ch.env.id).id = expectID)
            => pc' = "got" /\ got' = ch.env /\ pending' = pending]_vars
    /\ [][(pc = "await" /\ pc' # "await" /\ expectID \in DOMAIN pending)
            => /\ pc' = "got"
               /\ got' = pending[expectID]
               /\ expectID \notin DOMAIN pending'
               /\ rd' = rd /\ pipe' = pipe /\ buf' = buf]_vars

\* C6 witness: the response for id 2 arrived while id 1 was awaited, and the
\* await of id 2 got it from the pending map.
C6_Witness ==
    pc = "got" /\ fromPending /\ expectID = "2" /\ got.id = IntId(2) /\ reads = 0

\* The reply the session owes to the request of the child in chunk c.
MethodNotFoundReply(c) ==
    [id |-> c.env.id, method |-> "", cursor |-> "", code |-> -32601,
     about |-> c.env.method]

IsToolsList(m) == m.method = "tools/list"
ListRequests == SelectSeq(sent, IsToolsList)

\* The tool summaries of a sequence of pages, page after page.
RECURSIVE PagesTools(_)
PagesTools(ps) ==
    IF ps = <<>> THEN <<>>
    ELSE PagesTools(SubSeq(ps, 1, Len(ps) - 1))
         \o [i \in 1..Len(ps[Len(ps)].tools) |-> [name |-> ps[Len(ps)].tools[i]]]

\* C8: tool discovery paginates correctly: the first tools/list request has
\* no cursor; each later one carries the nextCursor of the page just before
\* it; the loop stops at the first page without nextCursor; the result's
\* tools are the pages' tools concatenated in the order of the requests.
C8_Pagination ==
    /\ Len(ListRequests) >= 1 => ListRequests[1].cursor = ""
    /\ \A i \in 2..Len(ListRequests) :
         /\ i - 1 <= Len(pages)
         /\ ListRequests[i].cursor = pages[i - 1].next
    /\ \A i \in 1..Len(pages) :
         /\ i <= Len(ListRequests)
         /\ pages[i].next = "" => i = Len(pages) /\ Len(ListRequests) = i
    /\ ret.res.ok =>
         /\ pages[Len(pages)].next = ""
         /\ ret.res.tools = PagesTools(pages)

\* C8 witness: two pages of one tool each gave the two tools in page order.
C8_Witness ==
    /\ pc = "returned"
    /\ ret.res.ok
    /\ Len(pages) = 2
    /\ ret.res.tools = <<[name |-> "a"], [name |-> "b"]>>
    /\ Len(ListRequests) = 2
    /\ ListRequests[2].cursor = "c1"

\* C9: every protocol violation is fatal to the probe: after a badly framed
\* message (here a line that is no Content-Length header), an undecodable
\* envelope, an unsupported id or a JSON-RPC error in the awaited response,
\* the probe returns an error and no result.
C9_ViolationsAreFatal ==
    /\ skipped => ~ret.res.ok
    /\ (pc = "returned" /\ skipped) => ret.err # NoErr
    /\ (pc = "got" /\ got.error # "") => ~ret.res.ok

\* C10: the launch check performs no protocol exchange (nothing is written
\* to the child), and a child that stays alive without ever speaking
\* JSON-RPC until it is killed passes the check.
C10_LaunchCheckOnly ==
    /\ sent = <<>>
    /\ (pc = "returned" /\ proc = "killed" /\ emitted = 0) => TestLocalServer = NoErr

\* C11: on every return path after the process was started, the shutdown
\* first flushes and closes the child's stdin, only then waits for the exit,
\* and when the grace period elapses on a child that still runs it kills the
\* child and waits for that termination: the call returns only after the
\* waiter reported the end of the child.
C11_ShutdownOrder ==
    /\ [](pc \in {"shutdown_select", "kill_wait"} => ~stdinOpen)
    /\ []((pc = "returned" /\ proc # "unstarted")
            => /\ ~stdinOpen
               /\ proc \in {"exited", "killed"}
               /\ waiter = "finished")
    /\ [][(pc = "shutdown" /\ pc' # "shutdown")
            => /\ pc' = "shutdown_select"
               /\ ~stdinOpen'
               /\ wait' = (IF success THEN LongGrace ELSE ShortGrace)
               /\ done' = done]_vars
    /\ [][(pc # "returned" /\ pc' = "returned" /\ proc # "unstarted")
            => /\ pc \in {"shutdown_select", "kill_wait"}
               /\ done # <<>>
               /\ done' = <<>>]_vars
    /\ [][(pc = "shutdown_select" /\ pc' = "kill_wait" /\ proc = "running")
            => proc' = "killed"]_vars
    /\ [][(pc = "shutdown_select" /\ pc' = "kill_wait") => done' = done]_vars

\* C11 witness: a successful probe whose child ignored the end of its input
\* was killed by the shutdown, and the call returned after the waiter's report.
C11_Witness ==
    /\ pc = "returned"
    /\ success
    /\ ~ctxDone
    /\ proc = "killed"
    /\ waiter = "finished"
    /\ wait = LongGrace

\* C13: the firing of the caller's context does not by itself kill the
\* child: in a probe session a running child is killed only by the shutdown
\* step, after the grace period.
C13_CancelDoesNotKill ==
    [][(proc = "running" /\ proc' = "killed") => pc = "shutdown_select"]_vars

\* C12: every blocking point returns a cancellation error promptly once the
\* caller's context is done; in particular a RunLocalCommand whose context
\* fires while the child is still running reports a cancellation error.
C12_CancelledRunReportsCancellation ==
    (out.op = "run" /\ out.child = "killed") => out.err = "unable to execute: context"

\* The step in which Warmup returns nil.
WarmupSucceeds ==
    /\ opc \in {"config", "local"}
    /\ opc' = "idle"
    /\ out'.op = "warmup"
    /\ out'.err = ""

\* The aliases in the store file.
StoreAliases(f) == DOMAIN loadServerStore(f).Servers

\* C14: after a successful Warmup every registry entry comes from the
\* highest-precedence source that has its alias, local over config over
\* embedded, and a local entry carries the stored definition, whatever the
\* order in which the entries of each source were enumerated.
C14_Precedence ==
    [][WarmupSucceeds =>
         \A a \in DOMAIN clients' :
            IF a \in StoreAliases(file')
            THEN /\ clients'[a].source = SourceLocal
                 /\ clients'[a].hasDefinition
                 /\ clients'[a].def = StoredDefinition(file', a).def
            ELSE IF a \in opts
            THEN clients'[a].source = SourceConfig /\ ~clients'[a].hasDefinition
            ELSE /\ a \in {"github", "files"}
                 /\ clients'[a].source = SourceEmbedded]_vars

\* C14 witness: github is an embedded default, declared by the configuration
\* and stored locally; after the warmup its entry is the local one, and mine,
\* declared by the configuration only, is a config entry.
C14_Witness ==
    /\ opc = "idle"
    /\ out.op = "warmup"
    /\ out.err = ""
    /\ opts = {"github", "mine"}
    /\ StoreAliases(file) = {"github"}
    /\ DOMAIN clients = {"github", "files", "mine"}
    /\ clients["github"].source = "local"
    /\ clients["github"].def = DefNpx
    /\ clients["mine"].source = "config"

\* C15: Warmup is fail-fast with no partial registry: when a config-declared
\* manifest fails to load, Warmup returns the wrapped error and the registry
\* holds none of the entries the aborted pass registered.
C15_NoPartialRegistry ==
    (opc = "idle" /\ out.op = "warmup" /\ out.err = "load manifest")
        => DOMAIN clients = {}

\* C16: after every successful Warmup the registry's aliases are exactly the
\* embedded defaults, the config-declared aliases and the aliases of the
\* store file; the pass starts from an empty registry, so nothing registered
\* before survives unless a source registers it again; a missing store file
\* is no error.
C16_WarmupRebuilds ==
    /\ [][WarmupSucceeds =>
            DOMAIN clients' = {"github", "files"} \cup opts \cup StoreAliases(file')]_vars
    /\ [][(opc = "idle" /\ opc' = "embedded") => DOMAIN clients' = {}]_vars
    /\ [][(opc = "config" /\ todo = {} /\ opc' # opc /\ file.st = "missing")
            => /\ opc' = "idle"
               /\ out'.op = "warmup"
               /\ out'.err = ""
               /\ \A a \in DOMAIN clients' : clients'[a].source # SourceLocal]_vars

\* C16 witness: a warmup succeeded on a missing store file, with the two
\* embedded defaults and the one alias of the configuration.
C16_Witness ==
    /\ opc = "idle"
    /\ out.op = "warmup"
    /\ out.err = ""
    /\ file.st = "missing"
    /\ opts = {"mine"}
    /\ DOMAIN clients = {"github", "files", "mine"}

\* C17: store round trip: after AddLocalServer(alias, def) succeeded,
\* GetLocalServer(alias) returns a definition equal to def, also after later
\* calls of AddLocalServer and RemoveLocalServer on other aliases.
C17_RoundTrip ==
    (opc = "idle" /\ out.op = "get" /\ out.err = "" /\ out.alias \in DOMAIN added)
        => out.def = added[out.alias]

\* C18: the store file is rewritten atomically: at every instant it holds a
\* complete document (the previous one or the new one), or does not exist
\* yet; it is never empty or partial.
C18_AtomicRewrite == file.st \in {"missing", "doc"}

ValidationErrors == {"alias cannot be empty", "server command cannot be empty"}

NotFoundErrors == {"no MCP servers registered", "unknown MCP server"}

C21_AddUnderGivenAlias ==
    (out.op = "mcp add" /\ out.path = "configs/firecrawl.json" /\ out.alias # "")
        => out.err = ""

\* C22: registry locking is mutually exclusive for writers: while Reset,
\* RegisterManifest, RegisterLocal or Remove holds the lock, no other mutating
\* method and no Get, List or Snapshot is inside its critical section; any
\* number of Get, List and Snapshot calls may be inside theirs together.
Writing(t) == tpc[t] \in {"wcs", "unlock"}
Reading(t) == tpc[t] \in {"rcs", "runlock"}
C22_WritersExclude ==
    \A t \in Goroutines :
        Writing(t) => \A u \in Goroutines \ {t} : ~Writing(u) /\ ~Reading(u)

\* Readers share: every goroutine but one is inside a reading method while the
\* remaining one, a writer, is kept out.
C22_Witness ==
    \E t \in Goroutines :
        /\ tpc[t] = "lwait"
        /\ \A u \in Goroutines \ {t} : tpc[u] = "rcs"

\* C23: no registry reader starves: under fair scheduling every Get, List or
\* Snapshot call that requests the shared lock eventually acquires it and
\* returns, whatever stream of mutating calls runs beside it.
C23_NoReaderStarves ==
    \A t \in Goroutines : (tpc[t] = "rlock") ~> (tpc[t] = "idle")

\* C24: an alias is a unique key of the registry: each mutating method changes
\* the entry of its alias only, a registration leaves under its alias exactly
\* the entry it was called with (source, origin, manifest and definition all of
\* the latest registration), Remove leaves none and Reset leaves no entry at all.
Mutated == \E t \in Goroutines : tpc[t] = "wcs" /\ tpc'[t] = "unlock"
Kept(alias) ==
    \A a \in (DOMAIN clients \cup DOMAIN clients') \ {alias} :
        a \in DOMAIN clients /\ a \in DOMAIN clients' /\ clients'[a] = clients[a]
C24_AliasIsAKey ==
    [][Mutated =>
        /\ wrote'.op = "Reset" => clients' = EmptyMap
        /\ wrote'.op = "Remove" => wrote'.alias \notin DOMAIN clients' /\ Kept(wrote'.alias)
        /\ wrote'.op = "RegisterManifest" =>
              /\ wrote'.alias \in DOMAIN clients'
              /\ clients'[wrote'.alias] =
                    [source |-> SourceConfig, hasManifest |-> TRUE,
                     manifest |-> Manifest(wrote'.alias, "location"),
                     hasDefinition |-> FALSE, def |-> NoDef, origin |-> wrote'.alias]
              /\ Kept(wrote'.alias)
        /\ wrote'.op = "RegisterLocal" =>
              /\ wrote'.alias \in DOMAIN clients'
              /\ clients'[wrote'.alias] =
                    [source |-> SourceLocal, hasManifest |-> FALSE,
                     manifest |-> NoManifest,
                     hasDefinition |-> TRUE, def |-> DefSh, origin |-> StorePath]
              /\ Kept(wrote'.alias)]_vars

\* A manifest was registered over a local definition of the same alias, beside
\* another alias's entry.
C24_Witness ==
    /\ wrote.op = "RegisterManifest"
    /\ wrote.alias = "github"
    /\ \E t \in Goroutines : tpc[t] = "unlock"
    /\ DOMAIN clients = {"github", "mine"}
    /\ clients["github"].source = SourceConfig
    /\ clients["mine"].source = SourceLocal

\* C25: environment precedence of the launcher.  As stated for every key: the
\* child's environment is the process environment overlaid by the definition's
\* env overlaid by the extra env, the later layer winning and a key of no later
\* layer keeping its base value.
Layered(k) ==
    IF k \in DOMAIN extraEnv THEN extraEnv[k]
    ELSE IF k \in DOMAIN defEnv THEN defEnv[k]
    ELSE environ[k]
LayeredKeys == DOMAIN environ \cup DOMAIN defEnv \cup DOMAIN extraEnv
C25_EveryKeyLayered ==
    lpc = "built" =>
        /\ DOMAIN cmdEnv = LayeredKeys
        /\ \A k \in LayeredKeys : cmdEnv[k] = Layered(k)

\* C25, amended: the precedence holds for every key other than PATH; PATH is
\* always set, to the layered PATH (empty when no layer has one) when no
\* bundled runtime directory was discovered, and to a list that starts with
\* the discovered directories otherwise.
C25_OtherKeysLayered ==
    lpc = "built" =>
        /\ DOMAIN cmdEnv = LayeredKeys \cup {"PATH"}
        /\ \A k \in LayeredKeys \ {"PATH"} : cmdEnv[k] = Layered(k)
        /\ nodeDirs = <<>> =>
              cmdEnv["PATH"] = IF "PATH" \in LayeredKeys THEN Layered("PATH") ELSE <<>>
        /\ nodeDirs # <<>> =>
              /\ Len(cmdEnv["PATH"]) >= Len(nodeDirs)
              /\ SubSeq(cmdEnv["PATH"], 1, Len(nodeDirs)) = nodeDirs

\* Base {A:1}, definition {A:2, B:3}, extra {B:4} give A=2 and B=4, and HOME
\* keeps its base value.
C25_Witness ==
    /\ lpc = "built"
    /\ "A" \in DOMAIN environ /\ environ["A"] = Plain("1")
    /\ defEnv = EnvOf("2", "3", AbsentPath)
    /\ extraEnv = EnvOf(Absent, "4", AbsentPath)
    /\ cmdEnv["A"] = Plain("2")
    /\ cmdEnv["B"] = Plain("4")
    /\ cmdEnv["HOME"] = Plain("/root")

\* C26: PATH augmentation: the child's PATH lists the discovered directories
\* first, and for every original PATH and every set of discovered directories,
\* the empty set included, no two of its entries differ only by letter case.
DiffersOnlyByCase(e, f) == e # f /\ ToLower(e) = ToLower(f)
C26_NoCaseDuplicates ==
    lpc = "built" =>
        /\ Len(cmdEnv["PATH"]) >= Len(nodeDirs)
        /\ SubSeq(cmdEnv["PATH"], 1, Len(nodeDirs)) = nodeDirs
        /\ \A i, j \in 1 .. Len(cmdEnv["PATH"]) :
              ~DiffersOnlyByCase(cmdEnv["PATH"][i], cmdEnv["PATH"][j])

\* C27: outcome of the one-shot executor.  As stated: RunLocalCommand returns
\* a nil error with exit code 0 exactly when the process was spawned and
\* exited with status 0.
RunReturned == out.op = "run"
RECURSIVE Bytes(_)
Bytes(str) ==
    IF str = <<>> THEN <<>>
    ELSE [i \in 1 .. Head(str).n |-> Head(str).ch] \o Bytes(Tail(str))
LastAtMost(bytes, max) ==
    SubSeq(bytes, IF Len(bytes) > max THEN Len(bytes) - max + 1 ELSE 1, Len(bytes))
Inked(bytes) == {i \in 1 .. Len(bytes) : bytes[i] \notin {" ", "\n"}}
Trimmed(bytes) ==
    IF Inked(bytes) = {} THEN <<>>
    ELSE SubSeq(bytes, CHOOSE i \in Inked(bytes) : \A j \in Inked(bytes) : i <= j,
                       CHOOSE i \in Inked(bytes) : \A j \in Inked(bytes) : i >= j)

IsClientRequest(m) == m.method \in {"initialize", "tools/list"}
ClientRequests == SelectSeq(sent, IsClientRequest)
Answered ==
    (IF phase = "tools" THEN 1 ELSE 0) + Len(pages) + (IF pc = "got" THEN 1 ELSE 0)
Unanswered == Len(ClientRequests) - Answered
Wrote(m) == Len(sent') = Len(sent) + 1 /\ sent'[Len(sent')] = m
C28_HandshakeOrder ==
    /\ [](sent # <<>> => sent[1] = Request(1, "initialize", ""))
    /\ [](\A i \in 1 .. Len(sent) :
            IsToolsList(sent[i]) => \E j \in 1 .. (i - 1) : sent[j] = InitializedNote)
    /\ [](~Returning => Unanswered \in {0, 1})
    /\ [][Wrote(InitializedNote) =>
            /\ pc = "got"
            /\ rawMessageID(got.id) = [ok |-> TRUE, id |-> "1"]
            /\ got.method = ""
            /\ got.error = ""
            /\ got.result.k = "obj"
            /\ InitializedNote \notin {sent[i] : i \in 1 .. Len(sent)}
            /\ pc' = "send_list"]_vars
    /\ [][(\E m \in {sent'[i] : i \in 1 .. Len(sent')} :
             Wrote(m) /\ IsClientRequest(m)) => Unanswered = 0]_vars

\* Both pages of a listing were asked for, one request after the other, after
\* the handshake.
C28_Witness ==
    /\ Len(sent) >= 4
    /\ sent[2] = InitializedNote
    /\ sent[3] = Request(2, "tools/list", "")
    /\ sent[4] = Request(3, "tools/list", "c1")
    /\ pc = "await_select"

\* C29: frame reading never reads past the declared length: for a header
\* block declaring Content-Length N, readFramedMessage returns exactly the
\* next N bytes as the body and consumes no byte after them, so that the next
\* read starts at the byte that follows; a frame whose declared length cuts
\* the JSON body short yields a decode error instead of a message.
BodyReturned == fpc = "body" /\ fpc' = "read"
CutShort(body) == body \in {<<>>, <<"{">>}
C29_ExactlyDeclaredLength ==
    /\ [][BodyReturned =>
            /\ length >= 0
            /\ Len(frame'.body) = length
            /\ frame'.body \o stream' = stream
            /\ consumed' = consumed \o frame'.body
            /\ consumed[Len(consumed)] = NL]_vars
    /\ [][(fpc \in {"line", "body"}) => consumed' \o stream' = consumed \o stream]_vars
    /\ [][(fpc = "read" /\ CutShort(frame.body)) =>
            /\ fpc' = "failed"
            /\ frame'.err = "decode jsonrpc envelope"]_vars
    /\ []((fpc = "idle" /\ frame.returned) =>
            /\ frame.err = ""
            /\ ~CutShort(frame.body))

\* A frame declared one byte of the body {}: the byte { was returned and did
\* not decode, and the byte } is the next the reader would deliver.
C29_Witness ==
    /\ fpc = "failed"
    /\ frame.err = "decode jsonrpc envelope"
    /\ length = 1
    /\ frame.body = <<"{">>
    /\ stream # <<>>
    /\ Head(stream) = "}"

\* C30: frame header errors: readFramedMessage returns a protocol error when
\* the header block ends (blank line) without a Content-Length header or with
\* a negative length only, and when the Content-Length value is not numeric;
\* in none of these cases does it read further lines or return a body.
NextLine == TrimLine(Take(stream, LineEnd(stream)))
BlankLineNext == fpc = "line" /\ HasLine(stream) /\ NextLine = <<>>
BadValueNext ==
    /\ fpc = "line"
    /\ HasLine(stream)
    /\ HasLengthPrefix(NextLine)
    /\ \E i \in 2 .. Len(NextLine) : NextLine[i] \notin Digits \cup Spaces \cup {"-", "+"}
ProtocolError == fpc' = "failed" /\ frame'.err # "" /\ frame'.body = <<>>
C30_HeaderErrors ==
    /\ [][(BlankLineNext /\ length < 0) => ProtocolError]_vars
    /\ [][BadValueNext => ProtocolError]_vars

\* The token fired while the read of the session has delivered nothing yet.
AwaitingBytes == pc = "read_select" /\ ctxDone /\ rd = "blocked"

\* The token's error has been returned by the read.
TokenErrorReturned == Returning /\ ret.err.kind = "context"

\* C31: cancellable reads: when the token fires while readFramedMessage
\* waits for bytes that have not arrived, the session can leave the read at
\* once, the step that leaves it abandons the read and returns the token's
\* error without taking a frame, and after the token's error was returned no
\* frame is delivered to the session and no further read is started.
C31_CancellableReads ==
    /\ [](AwaitingBytes => ENABLED ReadSelect)
    /\ [][(AwaitingBytes /\ pc' # pc)
            => /\ pc' = "shutdown"
               /\ ret'.err.kind = "context"
               /\ ret'.res = NoResult
               /\ rd' = "blocked"
               /\ pending' = pending /\ notifications' = notifications
               /\ tools' = tools /\ sent' = sent]_vars
    /\ [][TokenErrorReturned
            => /\ ret' = ret
               /\ rd' = rd
               /\ sent' = sent /\ pages' = pages
               /\ ~TakeStep]_vars

\* C31 witness: the probe returned the token's error while the read it had
\* started was still waiting for bytes.
C31_Witness ==
    pc = "returned" /\ ret.err.kind = "context" /\ rd = "blocked" /\ Len(sent) >= 1

\* An await of the session is under way.
Awaiting == pc \in {"await", "await_select", "read_select", "got"}

\* The read delivered a response whose id is n, as an integer or as the
\* string of n's decimal form.
ResponseFor(c, n) ==
    /\ c.w = "frame"
    /\ c.env.method = ""
    /\ c.env.id \in {IntId(n), StrId(DecimalDigit[n])}

\* C32: the requests of a session carry the integer ids 1, 2, 3, ... in
\* sending order with no reuse; each await expects the decimal string of the
\* id of the request sent just before it; and a response is matched to the
\* await whether its id is the integer n or the string of n's decimal form.
C32_RequestIds ==
    /\ [](\A i \in 1..Len(ClientRequests) : ClientRequests[i].id = IntId(i))
    /\ [](Awaiting =>
            /\ ClientRequests # <<>>
            /\ ClientRequests[Len(ClientRequests)].id = IntId(requestID)
            /\ expectID = DecimalDigit[requestID])
    /\ [][(TakeStep /\ ResponseFor(ch, requestID))
            => pc' = "got" /\ got' = ch.env /\ pending' = pending]_vars

\* C32 witness: the second request of the session was answered with the id
\* as the string "2", and the await of id 2 returned that response.
C32_Witness ==
    /\ pc = "got" /\ ~fromPending
    /\ Len(ClientRequests) = 2 /\ requestID = 2
    /\ got.id = StrId("2")

\* The read delivered a message with a method and no id.
IsNotification(c) == c.w = "frame" /\ c.env.id = NoId /\ c.env.method # ""

\* The bytes of a message's params that carry meaning.
CompactLength(env) == env.params.len

HandshakeReached == \E i \in 1..Len(sent) : sent[i] = InitializedNote

\* The deferred shutdown has chosen its grace period.
GraceChosen == pc \in {"shutdown_select", "kill_wait"}

\* C34: the shutdown uses the short grace period exactly when the probe
\* never reached a successful handshake, and the longer one whenever it did,
\* a probe that fails later during tool discovery included.
C34_GraceByHandshake ==
    GraceChosen => wait = (IF HandshakeReached THEN LongGrace ELSE ShortGrace)

\* The goroutines of a session besides the one that called it: the waiter
\* until cmd.Wait has returned, and the goroutine of a read until the read
\* has delivered.
BackgroundTasks ==
    (IF waiter = "waiting" THEN {"waiter"} ELSE {})
        \cup (IF rd = "blocked" THEN {"reader"} ELSE {})

\* C35: a session is driven by the invoking thread and exactly one
\* background task, the waiter: no other background task exists at any
\* point of the session, and none runs when the session's call has returned.
C35_OnlyTheWaiter ==
    /\ BackgroundTasks \subseteq {"waiter"}
    /\ pc = "returned" => BackgroundTasks = {}

\* A read goroutine outlives the call: the probe has returned while the read
\* it abandoned is still waiting on the child's stdout.
ReaderLeftBehind == pc = "returned" /\ rd = "blocked"

\* The envelope is a response with the id that the current await expects.
Matches(env) ==
    /\ env.method = ""
    /\ env.id # NoId
    /\ rawMessageID(env.id) = [ok |-> TRUE, id |-> expectID]

\* The next thing the awaiting session can take from the child's stdout is
\* the complete response it awaits: the child has written it, and it is in
\* the pipe, in the reader's buffer or in the hands of the read goroutine.
ResponseWritten ==
    /\ pc \in {"await", "await_select", "read_select"}
    /\ expectID \notin DOMAIN pending
    /\ \/ rd = "ready" /\ ch.w = "frame" /\ Matches(ch.env)
       \/ rd # "ready" /\ buf # <<>> /\ Head(buf).w = "frame" /\ Matches(Head(buf).env)
       \/ /\ rd # "ready" /\ buf = <<>> /\ pipe # <<>>
          /\ Head(pipe).w = "frame" /\ Matches(Head(pipe).env)

\* C36: a response is not lost to process exit: once the child has written
\* the complete response for the awaited id and has exited, and the token
\* does not fire, every step leaves the response on its way to the session
\* or hands it to the await, which returns it.
C36_ResponseNotLost ==
    [][(ResponseWritten /\ proc = "exited" /\ ~ctxDone')
        => \/ ResponseWritten'
           \/ pc' = "got" /\ Matches(got')]_vars

\* cmd.Start succeeded in this session.
ChildStarted == proc # "unstarted"

\* C37: no orphan process: whenever probeLocalServer has returned after the
\* child was started, on success and on every failure path, the child has
\* terminated (by itself or killed) and the waiter has observed it: cmd.Wait
\* has returned.
C37_NoOrphan ==
    (pc = "returned" /\ ChildStarted)
        => proc \in {"exited", "killed"} /\ waiter = "finished"

\* C37 witness: a probe returned whose child did not exit within the grace
\* period: the shutdown killed it and received the waiter's report.
C37_Witness ==
    /\ pc = "returned" /\ ~ctxDone
    /\ proc = "killed" /\ waiter = "finished" /\ done = <<>>

\* The step starts a read of the buffered stdout reader.
StartsRead == reads' = reads + 1

\* C38: single reader of the child's stdout: a read is started only when no
\* read task is running, so at most one task reads at any moment; and once a
\* read was abandoned because the token fired, the session starts no further
\* read and takes nothing from the abandoned one.
C38_SingleReader ==
    /\ [][StartsRead => (rd # "blocked" /\ rd' = "blocked")]_vars
    /\ [][(Returning /\ rd = "blocked") => (rd' = "blocked" /\ ~StartsRead)]_vars
    /\ [](rd = "blocked" => (pc = "read_select" \/ (Returning /\ ret.err.kind = "context")))

\* C38 witness: the token fired during a read, the session gave the read up
\* and is shutting down, and the child still runs: the abandoned read task
\* is still waiting on the child's stdout.
C38_Witness ==
    /\ pc = "shutdown_select" /\ rd = "blocked"
    /\ ret.err.kind = "context" /\ proc = "running"

\* The aliases of the registry entries whose source is "local".
LocalEntries(cs) == {a \in DOMAIN cs : cs[a].source = SourceLocal}

\* Store and registry agree: the local entries of the registry are the
\* aliases of the store file, each with the definition the store holds.
Consistent ==
    /\ file.st # "truncated"
    /\ LocalEntries(clients) = StoreAliases(file)
    /\ \A a \in LocalEntries(clients) :
         clients[a].def = loadServerStore(file).Servers[a]

\* Inside AddLocalServer or RemoveLocalServer, between the load and the
\* return: registry and the store to be written agree on every alias but
\* the one of the call.
ConsistentButCall ==
    /\ opc \in {"save", "write"}
    /\ call.op \in {"add", "remove"}
    /\ \A a \in (LocalEntries(clients) \cup DOMAIN store) \ {call.alias} :
         /\ a \in LocalEntries(clients)
         /\ a \in DOMAIN store
         /\ clients[a].def = store[a]

\* AddLocalServer or RemoveLocalServer returns, with an error or without.
StoreCallReturns == opc' = "idle" /\ out' # out /\ out'.op \in {"add", "remove"}

\* C39: store and registry stay consistent: a successful Warmup makes the
\* local entries of the registry equal to the store file's entries, alias by
\* alias and definition by definition, and every AddLocalServer and
\* RemoveLocalServer call that starts in such a state, failing or not,
\* returns in such a state (no I/O failure, no other writer of the file).
C39_StoreMatchesRegistry ==
    /\ [][WarmupSucceeds => Consistent']_vars
    /\ [][(opc = "idle" /\ Consistent /\ StoreCallReturns) => Consistent']_vars
    /\ [][(opc = "idle" /\ Consistent /\ opc' = "save") => ConsistentButCall']_vars
    /\ [][(ConsistentButCall /\ opc' \in {"save", "write"}) => ConsistentButCall']_vars
    /\ [][(ConsistentButCall /\ StoreCallReturns) => Consistent']_vars

\* RemoveLocalServer returns nil.
RemoveSucceeds ==
    opc = "write" /\ opc' = "idle" /\ out'.op = "remove" /\ out'.err = ""

\* A step of Warmup that registers manifests.
RegistersManifests == opc \in {"embedded", "config"}

\* C40: removing a local definition does not restore what it shadowed:
\* after a successful RemoveLocalServer(alias) the registry has no entry for
\* the alias, also when the last Warmup had registered a manifest under it;
\* every other alias keeps its entry and none is added; and an entry with a
\* manifest appears in the registry only in a step of Warmup.
C40_RemoveDoesNotRestore ==
    /\ [][RemoveSucceeds
            => /\ call.alias \notin DOMAIN clients'
               /\ DOMAIN clients' = DOMAIN clients \ {call.alias}
               /\ \A a \in DOMAIN clients' : clients'[a] = clients[a]]_vars
    /\ [][(\E a \in DOMAIN clients' :
              /\ clients'[a].hasManifest
              /\ (a \notin DOMAIN clients \/ ~clients[a].hasManifest))
            => RegistersManifests]_vars

\* C40 witness: the last Warmup registered the embedded manifests github and
\* files, the local definition github was then removed with success, and
\* the registry holds files and nothing under github.
C40_Witness ==
    /\ opc = "idle"
    /\ out.op = "remove" /\ out.err = "" /\ out.alias = "github"
    /\ "github" \notin DOMAIN clients
    /\ "files" \in DOMAIN clients
    /\ clients["files"].source = SourceEmbedded

====
